---- MODULE Spec2Model ----
(***************************************************************************)
(* Model of the UPnP/IGD comprehensive-check subsystem of the node         *)
(* checker: platforms/linux-checks.js and platforms/windows-checks.js,     *)
(* driven through the IPC channels registered in main.js.                  *)
(*                                                                         *)
(* One run of a comprehensive check is a sequence of awaits.  The program  *)
(* counter pc[c] of a channel names the external operation the run is      *)
(* awaiting; an action is the completion of that operation together with   *)
(* all synchronous code up to the next await (or up to the return of the   *)
(* orchestrator).  Outcomes of external operations (commands, protocol     *)
(* client, file system, network interfaces) are chosen by the environment. *)
(***************************************************************************)
EXTENDS Integers, Sequences, FiniteSets, TLC

VARIABLES
    platform,    \* process.platform of the running application
    pc,          \* per channel: the operation the run is awaiting
    avail,       \* per channel: outcome of the orchestrator's availability check
    work,        \* per channel: the result object of the probe in progress
    lib,         \* per channel: result returned by the library probe
    nat,         \* per channel: result returned by the native probe
    ret,         \* per channel: result returned by the comprehensive check
    client,      \* per channel: state of the protocol client of the library probe
    closeCalls,  \* per channel: number of close() calls on that client
    ops,         \* per channel: operations invoked so far in this run, in order
    gateway,     \* per port: the channel whose run created the mapping held by the router
    localIp,     \* per channel: local address the native probe resolved
    toolPath,    \* per channel: helper path the Windows native probe uses
    locatedPath, \* per channel: helper path the Windows orchestrator resolved
    escapes,     \* per channel: what threw into the orchestrator ("none" if nothing)
    drawn,       \* per channel: what the environment answered in this run, by call
    previous,    \* status and environment answers of the last run a repeat test kept
    appPaths,    \* the reply of the 'get-app-paths' handler awaiting delivery
    packaged,    \* app.isPackaged
    partition,   \* the 'check-partition-style' request: position, commands run, reply
    app,         \* the application: startup phase, loaded checks module, handlers, windows
    disk,        \* the user data directory: what first-run setup finds and leaves there
    tracer,      \* the 'perform-traceroute' request and the trace it started
    ipQuery,     \* the 'get-public-ip' request: position, sources consulted, reply
    sysInfo      \* the getSystemInfo call: collectors' outcomes and the report

vars == <<platform, pc, avail, work, lib, nat, ret, client, closeCalls, ops,
          gateway, localIp, toolPath, locatedPath, escapes, drawn, previous,
          appPaths, packaged, partition, app, disk, tracer, ipQuery, sysInfo>>

(***************************************************************************)
(* IPC channels through which a comprehensive check is requested.          *)
(***************************************************************************)
Channels == {"check-upnp-comprehensive", "check-upnp"}

Platforms == {"linux", "windows"}

\* test ports used by the probes
LinuxNativeTestPort == 8080
LibraryTestPort == 44444
WindowsTestPort == 44444

Ports == {LinuxNativeTestPort, LibraryTestPort, WindowsTestPort}

(***************************************************************************)
(* Text produced by the helper.  A text is known by the marker substrings  *)
(* it contains; Includes is String.prototype.includes restricted to the    *)
(* markers the code searches for.                                          *)
(***************************************************************************)
TxtNoIGD == "No IGD UPnP Device found on the network !"
TxtNoValid == "No valid UPNP Internet Gateway Device found."
TxtFound == "Found valid IGD : http://192.168.1.1:5000/ctl/IPConn"
TxtEmpty == ""
TxtDone == "UPnP command returned : 0"
TxtFailed == "AddPortMapping(...) failed with code 718 (ConflictInMappingEntry)"
TxtError == "connect: error, no route to host"
TxtBoth == "error: request failed"

ListTexts == {TxtNoIGD, TxtNoValid, TxtFound, TxtEmpty}
MapTexts == {TxtDone, TxtFailed, TxtError, TxtBoth}

MarkersOf(text) ==
    CASE text = TxtNoIGD -> {"No IGD UPnP Device found"}
      [] text = TxtNoValid -> {"No valid UPNP Internet Gateway Device found"}
      [] text = TxtFound -> {"Found valid IGD"}
      [] text = TxtFailed -> {"failed"}
      [] text = TxtError -> {"error"}
      [] text = TxtBoth -> {"failed", "error"}
      [] OTHER -> {}

Includes(text, marker) == marker \in MarkersOf(text)

\* outcome of a promisified exec: resolved with stdout, or rejected
ExecOutcomes(texts) == [exit : {"ok", "fail"}, stdout : texts]

ExecErrorMessage == "Command failed"
ClientThrowMessage == "client threw"
CloseThrowMessage == "close threw"
InterfacesThrowMessage == "networkInterfaces threw"
LocatorThrowMessage == "getPath threw"

(***************************************************************************)
(* os.networkInterfaces(): interface names in order, each with its         *)
(* addresses.                                                              *)
(***************************************************************************)
Lo4 == [internal |-> TRUE, family |-> "IPv4", address |-> "127.0.0.1"]
Lo6 == [internal |-> TRUE, family |-> "IPv6", address |-> "::1"]
Eth4 == [internal |-> FALSE, family |-> "IPv4", address |-> "192.168.1.20"]
Eth6 == [internal |-> FALSE, family |-> "IPv6", address |-> "fe80::1"]
Wlan4 == [internal |-> FALSE, family |-> "IPv4", address |-> "10.0.0.7"]

InterfaceConfigs ==
    { <<>>,
      << <<Lo4, Lo6>> >>,
      << <<Lo4>>, <<Eth6>> >>,
      << <<Lo4>>, <<Eth6, Eth4>>, <<Wlan4>> >>,
      << <<Wlan4>>, <<Eth4>> >> }

RECURSIVE ScanAddresses(_, _)
ScanAddresses(list, i) ==
    IF i > Len(list) THEN ""
    ELSE IF ~list[i].internal /\ list[i].family = "IPv4" THEN list[i].address
    ELSE ScanAddresses(list, i + 1)

RECURSIVE ScanInterfaces(_, _)
ScanInterfaces(interfaces, n) ==
    IF n > Len(interfaces) THEN ""
    ELSE LET found == ScanAddresses(interfaces[n], 1)
         IN IF found # "" THEN found ELSE ScanInterfaces(interfaces, n + 1)

\* faulty variant: the first address of the first interface is taken unfiltered
FirstLocalIpUnfiltered(interfaces) ==
    IF interfaces = <<>> THEN "" ELSE interfaces[1][1].address

FirstLocalIp(interfaces) == ScanInterfaces(interfaces, 1)

(***************************************************************************)
(* Result objects.  A result is a record whose set of keys is the set of   *)
(* properties of the JavaScript object; details maps the keys present to   *)
(* their text.                                                             *)
(***************************************************************************)
EmptyObject == [k \in {} |-> ""]

NoResult == [none |-> TRUE]

Has(r, k) == k \in DOMAIN r

SetDetail(r, k, v) == [r EXCEPT !.details = (k :> v) @@ @]

PushRecommendation(r, s) == [r EXCEPT !.recommendations = Append(@, s)]

RecCheckRouter == "Check if your router supports UPnP and make sure it's enabled"
RecPartialLinux == "Additional Router settings required"
RecPartialWindows == "Additional router settings may be required"
RecOpsFailed == "UPnP is detected but port mapping operations failed. Check router settings."
RecInstall == "Install miniupnpc to enable command-line UPnP checks."
RecReviewLogs == "Review error logs for more details."
RecToolNotFound == "UPnP checking tool not found. This may be resolved after installation."
RecCompleteInstall == "Complete the installation to enable UPnP checking"

ErrNoIGD == "No IGD detected on the network"
ErrNoLocalIp == "Could not determine local IP address"

InitResultLinux ==
    [igdDetected |-> FALSE, addMapping |-> FALSE, removeMapping |-> FALSE,
     status |-> "FAIL", details |-> EmptyObject, recommendations |-> <<>>,
     platform |-> "linux"]

InitResultWindows ==
    [igdDetected |-> FALSE, addMapping |-> FALSE, removeMapping |-> FALSE,
     status |-> "FAIL", details |-> EmptyObject, recommendations |-> <<>>,
     platform |-> "windows", enabled |-> FALSE]

\* a gateway answered discovery: the probe records it
\* faulty variant: igdDetected is not set
IgdFoundLinuxUnset(r, listOutput) == SetDetail(r, "igdInfo", listOutput)

IgdFoundLinux(r, listOutput) ==
    SetDetail([r EXCEPT !.igdDetected = TRUE], "igdInfo", listOutput)

IgdFoundWindows(r, listOutput) ==
    SetDetail([r EXCEPT !.igdDetected = TRUE], "igdInfo", listOutput)

IgdFoundLibrary(r, externalIp) ==
    SetDetail([r EXCEPT !.igdDetected = TRUE], "externalIp", externalIp)

\* success criterion of an add or remove command that completed
OutputOk(text) == ~Includes(text, "failed") /\ ~Includes(text, "error")

\* faulty variant: PASS decided without looking at removeMapping
VerdictLinuxNoRemove(r) ==
    IF r.igdDetected /\ r.addMapping
    THEN [r EXCEPT !.status = "PASS"]
    ELSE IF r.igdDetected /\ (r.addMapping \/ r.removeMapping)
    THEN PushRecommendation([r EXCEPT !.status = "PARTIAL_PASS"], RecPartialLinux)
    ELSE IF r.igdDetected
    THEN PushRecommendation([r EXCEPT !.status = "FAIL"], RecOpsFailed)
    ELSE [r EXCEPT !.status = "FAIL"]

VerdictLinux(r) ==
    IF r.igdDetected /\ r.addMapping /\ r.removeMapping
    THEN [r EXCEPT !.status = "PASS"]
    ELSE IF r.igdDetected /\ (r.addMapping \/ r.removeMapping)
    THEN PushRecommendation([r EXCEPT !.status = "PARTIAL_PASS"], RecPartialLinux)
    ELSE IF r.igdDetected
    THEN PushRecommendation([r EXCEPT !.status = "FAIL"], RecOpsFailed)
    ELSE [r EXCEPT !.status = "FAIL"]

VerdictLibrary(r) ==
    IF r.igdDetected /\ r.addMapping /\ r.removeMapping
    THEN [r EXCEPT !.status = "PASS"]
    ELSE IF r.igdDetected /\ (r.addMapping \/ r.removeMapping)
    THEN PushRecommendation([r EXCEPT !.status = "PARTIAL_PASS"], RecPartialLinux)
    ELSE IF r.igdDetected
    THEN PushRecommendation([r EXCEPT !.status = "FAIL"], RecOpsFailed)
    ELSE [r EXCEPT !.status = "FAIL"]

\* faulty variant: a single successful mapping operation is reported as FAIL
VerdictWindowsNoPartial(r) ==
    IF r.igdDetected /\ r.addMapping /\ r.removeMapping
    THEN [r EXCEPT !.status = "PASS", !.enabled = TRUE]
    ELSE IF r.igdDetected
    THEN PushRecommendation([r EXCEPT !.status = "FAIL", !.enabled = r.igdDetected],
                            RecOpsFailed)
    ELSE [r EXCEPT !.status = "FAIL", !.enabled = r.igdDetected]

VerdictWindows(r) ==
    IF r.igdDetected /\ r.addMapping /\ r.removeMapping
    THEN [r EXCEPT !.status = "PASS", !.enabled = TRUE]
    ELSE IF r.igdDetected /\ (r.addMapping \/ r.removeMapping)
    THEN PushRecommendation([r EXCEPT !.status = "PARTIAL_PASS", !.enabled = TRUE],
                            RecPartialWindows)
    ELSE IF r.igdDetected
    THEN PushRecommendation([r EXCEPT !.status = "FAIL", !.enabled = r.igdDetected],
                            RecOpsFailed)
    ELSE [r EXCEPT !.status = "FAIL", !.enabled = r.igdDetected]

(***************************************************************************)
(* checkLinuxUPnPComprehensive: results built by the orchestrator.         *)
(***************************************************************************)
\* faulty variant: a module-level flag makes the orchestrator report the missing
\* tool once only; later runs report FAIL
MissingDependencyResultOnce ==
    [igdDetected |-> FALSE,
     status |-> IF previous = NoResult THEN "MISSING_DEPENDENCY" ELSE "FAIL",
     toolName |-> "miniupnpc",
     message |-> "miniupnpc is not installed", platform |-> "linux",
     recommendations |-> <<RecInstall>>,
     details |-> ("error" :> "upnpc command not found.")]

MissingDependencyResult ==
    [igdDetected |-> FALSE, status |-> "MISSING_DEPENDENCY", toolName |-> "miniupnpc",
     message |-> "miniupnpc is not installed", platform |-> "linux",
     recommendations |-> <<RecInstall>>,
     details |-> ("error" :> "upnpc command not found.")]

\* faulty variant: a library PASS wins whatever the native status
CombinedStatusLibraryFirst(libraryStatus, nativeStatus) ==
    IF libraryStatus = "PASS" THEN libraryStatus ELSE nativeStatus

CombinedStatus(libraryStatus, nativeStatus) ==
    IF nativeStatus = "PASS" THEN nativeStatus
    ELSE IF libraryStatus = "PASS" /\ nativeStatus # "FAIL" THEN libraryStatus
    ELSE nativeStatus

\* faulty variant: the spread order is reversed, library fields overlay native ones
MergeLinuxLibraryOverlay(libraryResult, nativeResult) ==
    [status |-> CombinedStatus(libraryResult.status, nativeResult.status),
     method |-> "native_with_library_fallback",
     platform |-> "linux"] @@ libraryResult @@ nativeResult

MergeLinux(libraryResult, nativeResult) ==
    LET spread == [status |-> CombinedStatus(libraryResult.status, nativeResult.status),
                   method |-> "native_with_library_fallback",
                   platform |-> "linux"] @@ nativeResult @@ libraryResult
    IN IF nativeResult.status # "PASS" /\ Has(nativeResult.details, "error")
       THEN [spread EXCEPT !.details =
                ("error" :> nativeResult.details.error)
                    @@ nativeResult.details @@ libraryResult.details]
       ELSE spread

LinuxOrchestratorError(message) ==
    [igdDetected |-> FALSE, status |-> "FAIL", message |-> message,
     platform |-> "linux", recommendations |-> <<RecReviewLogs>>,
     details |-> ("error" :> message)]

(***************************************************************************)
(* Bookkeeping shared by the actions.                                      *)
(***************************************************************************)
Upd(f, c, v) == [f EXCEPT ![c] = v]

\* faulty variant: the remove step names another protocol than the add step
ProtocolUdpOnRemove(probe, op) ==
    IF op = "remove" THEN "UDP"
    ELSE IF op = "add" THEN "TCP"
    ELSE "none"

\* the protocol argument of a mapping operation: the commands say TCP, the client
\* calls leave it to the client's default
Protocol(probe, op) ==
    IF op \in {"add", "remove"}
    THEN IF probe = "native" THEN "TCP" ELSE "default"
    ELSE "none"

Op(probe, op, port) ==
    [probe |-> probe, op |-> op, port |-> port, protocol |-> Protocol(probe, op)]

\* a protocol client method either throws when called or calls back later
CallOutcomes == {"pending", "throw"}
CloseOutcomes == {"ok", "throw"}

\* an environment answer that is a value, and the answer that is an exception
Gave(value) == [threw |-> FALSE, value |-> value]
Threw == [threw |-> TRUE]

(***************************************************************************)
(* Partition-style check on Linux.  A command's stdout is modelled as the  *)
(* list output.split('\n') yields: a sequence of lines, each line the      *)
(* sequence of its whitespace-separated tokens (a blank line is <<>>).     *)
(***************************************************************************)
MaxLines == 3

LsblkCommand == "lsblk -o NAME,PTTYPE"
FdiskCommand == "fdisk -l | grep \"Disklabel type:\""

RECURSIVE SeqsUpTo(_, _)
SeqsUpTo(S, n) ==
    IF n = 0 THEN {<<>>}
    ELSE LET shorter == SeqsUpTo(S, n - 1)
         IN shorter \cup {Append(s, x) : s \in {t \in shorter : Len(t) = n - 1}, x \in S}

\* with or without the empty last piece a final newline leaves behind
Endings(body) == {body, Append(body, <<>>)}

LsblkHeader == <<"NAME", "PTTYPE">>
\* rows of lsblk: a device with its table type, or a device that has none
LsblkRows == {<<"sda", "gpt">>, <<"sdb", "dos">>, <<"sda1">>, <<"sr0">>}
LsblkTexts ==
    {<< <<>> >>} \cup
    UNION {Endings(<<LsblkHeader>> \o body) : body \in SeqsUpTo(LsblkRows, MaxLines)}

\* lines of fdisk -l that grep lets through; grep fails when it selects none
FdiskRows == {<<"Disklabel", "type:", "gpt">>, <<"Disklabel", "type:", "dos">>,
              <<"Disklabel", "type:">>}
FdiskTexts ==
    UNION {Endings(body) : body \in SeqsUpTo(FdiskRows, MaxLines) \ {<<>>}}

NonBlank(line) == line # <<>>

\* line.match(/Disklabel type:\s*(.+)/); match[1] is the rest of the line
DisklabelMatch(line) ==
    \E i \in 1..Len(line) :
        /\ i + 2 <= Len(line)
        /\ line[i] = "Disklabel"
        /\ line[i + 1] = "type:"
DisklabelType(line) ==
    LET i == CHOOSE k \in 1..Len(line) :
                 k + 2 <= Len(line) /\ line[k] = "Disklabel" /\ line[k + 1] = "type:"
    IN SubSeq(line, i + 2, Len(line))

\* parts.length >= 2 for the parts of a row of lsblk
HasTypeColumn(line) == Len(line) >= 2

\* lines.map(...).filter(item => item !== null) on the non-blank lines
FormatLinuxPartitionOutput(output, isFdisk) ==
    LET lines == SelectSeq(output, NonBlank)
    IN IF isFdisk
       THEN LET kept == SelectSeq(lines, DisklabelMatch)
            IN [i \in 1..Len(kept) |->
                   [disk |-> "unknown", type |-> DisklabelType(kept[i])]]
       ELSE LET dataLines == SubSeq(lines, 2, Len(lines))
                kept == SelectSeq(dataLines, HasTypeColumn)
            IN [i \in 1..Len(kept) |-> [disk |-> kept[i][1], type |-> kept[i][2]]]

PartitionIdle == [pc |-> "idle", ran |-> <<>>, drawn |-> EmptyObject, ret |-> NoResult]

PartitionFailureFormatted ==
    [error |-> "Error reading Linux partition information",
     details |-> "fdisk failed", platform |-> "linux", formatted |-> <<>>]
\* the object returned when both commands failed
PartitionFailure ==
    [error |-> "Error reading Linux partition information",
     details |-> "fdisk failed", platform |-> "linux"]

TypeOK ==
    /\ platform \in Platforms
    /\ \A c \in Channels :
          pc[c] \in {"idle", "lib_externalIp", "lib_createMapping", "lib_removeMapping",
                     "nat_list", "nat_add", "nat_remove",
                     "win_list", "win_externalIp", "win_add", "win_remove",
                     "done", "raised"}

(***************************************************************************)
(* The application's life: app.whenReady() runs setupFirstRun and then     *)
(* initializeApp, which loads the checks module of the platform, registers *)
(* the IPC handlers and creates the main window, or shows an error window. *)
(***************************************************************************)
\* process.platform values the application can be started on
AppPlatforms == Platforms \cup {"darwin", "freebsd"}

\* the module initializeApp requires for a platform
ChecksModule(p) ==
    IF p = "windows" THEN "windows-checks"
    ELSE IF p = "linux" THEN "linux-checks"
    ELSE "unsupported"

AppLaunching ==
    [phase |-> "launching", setup |-> <<>>, platformChecks |-> "undefined",
     handlers |-> FALSE, mainWindow |-> "none", errorWindow |-> "none"]

(***************************************************************************)
(* setupFirstRun.  The user data directory is a record: flag, configDir   *)
(* and resourcesDir say whether the entry exists; userHelper and env say   *)
(* what the file holds ("none" when absent); appHelper says whether the    *)
(* application's own resources hold upnpc-static.exe.  A run is the record *)
(* of the directory, the steps taken so far and whether a step threw.      *)
(***************************************************************************)
DiskStates ==
    {d \in [flag : BOOLEAN, configDir : BOOLEAN, resourcesDir : BOOLEAN,
            userHelper : {"none", "older"}, env : {"none", "custom"},
            appHelper : BOOLEAN] :
        /\ d.env # "none" => d.configDir
        /\ d.userHelper # "none" => d.resourcesDir}

\* the directory a completed first run leaves on a fresh installation
DiskSetUp ==
    [flag |-> TRUE, configDir |-> TRUE, resourcesDir |-> TRUE,
     userHelper |-> "copied", env |-> "default", appHelper |-> TRUE]

Stepped(run, step) == [run EXCEPT !.steps = Append(@, step)]

\* if (!fs.existsSync(entry)) create it: mkdirSync for the two directories,
\* writeFileSync for .env; a throw of the call leaves setupFirstRun
Ensure(run, field, absent, made, op, fails) ==
    IF run.disk[field] # absent THEN Stepped(run, op \o " skipped")
    ELSE IF op \in fails THEN [Stepped(run, op \o " failed") EXCEPT !.threw = TRUE]
    ELSE [Stepped(run, op) EXCEPT !.disk[field] = made]

WriteFlagEarly(run, fails) ==
    [Stepped(run, "write flag") EXCEPT !.disk.flag = TRUE, !.threw = FALSE]
\* fs.writeFileSync(firstRunFlag, ...), reached when nothing before it threw
WriteFlag(run, fails) ==
    IF run.threw THEN run
    ELSE IF "write flag" \in fails
    THEN [Stepped(run, "write flag failed") EXCEPT !.threw = TRUE]
    ELSE [Stepped(run, "write flag") EXCEPT !.disk.flag = TRUE]

\* fails: the file system calls that throw in this run
SetupFirstRun(d, fails) ==
    IF d.flag
    THEN [disk |-> d, steps |-> <<"flag found">>, threw |-> FALSE]
    ELSE LET s0 == [disk |-> d, steps |-> <<"flag missing">>, threw |-> FALSE]
             s1 == Ensure(s0, "configDir", FALSE, TRUE, "mkdir config", fails)
             s2 == IF s1.threw THEN s1
                   ELSE Ensure(s1, "resourcesDir", FALSE, TRUE, "mkdir resources", fails)
             \* the copy of the helper, inside its own try/catch
             s3 == IF s2.threw THEN s2
                   ELSE IF ~(s2.disk.appHelper /\ s2.disk.userHelper = "none")
                   THEN Stepped(s2, "copy helper skipped")
                   ELSE IF "copy helper" \in fails
                   THEN Stepped(s2, "copy helper failed")
                   ELSE [Stepped(s2, "copy helper") EXCEPT !.disk.userHelper = "copied"]
             s4 == IF s3.threw THEN s3
                   ELSE Ensure(s3, "env", "none", "default", "write env", fails)
         IN WriteFlag(s4, fails)

\* no traceroute requested: no reply, nothing sent to the renderer
TracerIdle ==
    [pc |-> "idle", asked |-> "never", started |-> FALSE, threw |-> FALSE,
     reply |-> NoResult, sent |-> <<>>, emitted |-> 0]
\* no public IP requested
IpQueryIdle == [pc |-> "idle", consulted |-> <<>>, drawn |-> EmptyObject, reply |-> NoResult]
\* getSystemInfo not called: no collector has settled
SysInfoIdle ==
    [pc |-> "idle", os |-> NoResult, gpu |-> NoResult, network |-> NoResult,
     disk |-> NoResult, failed |-> {}, report |-> NoResult]

\* no request of any kind is under way
InitChecks ==
    /\ pc = [c \in Channels |-> "idle"]
    /\ avail = [c \in Channels |-> "unknown"]
    /\ work = [c \in Channels |-> NoResult]
    /\ lib = [c \in Channels |-> NoResult]
    /\ nat = [c \in Channels |-> NoResult]
    /\ ret = [c \in Channels |-> NoResult]
    /\ client = [c \in Channels |-> "none"]
    /\ closeCalls = [c \in Channels |-> 0]
    /\ ops = [c \in Channels |-> <<>>]
    /\ gateway = [p \in Ports |-> "none"]
    /\ localIp = [c \in Channels |-> ""]
    /\ toolPath = [c \in Channels |-> <<>>]
    /\ locatedPath = [c \in Channels |-> <<>>]
    /\ escapes = [c \in Channels |-> "none"]
    /\ drawn = [c \in Channels |-> EmptyObject]
    /\ previous = NoResult
    /\ appPaths = NoResult
    /\ partition = PartitionIdle

\* the application has started on a supported platform: initializeApp loaded
\* the module, registered the handlers and created the main window
Init ==
    /\ platform \in Platforms
    /\ packaged \in BOOLEAN
    /\ InitChecks
    /\ app = [phase |-> "running", setup |-> <<"flag found">>,
              platformChecks |-> ChecksModule(platform), handlers |-> TRUE,
              mainWindow |-> "open", errorWindow |-> "none"]
    /\ disk = DiskSetUp
    /\ tracer = TracerIdle
    /\ ipQuery = IpQueryIdle
    /\ sysInfo = SysInfoIdle

ExternalIpText == "203.0.113.10"

(***************************************************************************)
(* checkLinuxUPnPToolAvailability: commandExists('upnpc') returns true or  *)
(* false or throws; a throw is caught and reported as unavailable.         *)
(***************************************************************************)
\* faulty variant: an error of the lookup counts as available
CheckLinuxUPnPToolAvailabilityLenient(hasUpnpc) == hasUpnpc # "false"

CheckLinuxUPnPToolAvailability(hasUpnpc) ==
    IF hasUpnpc = "throw" THEN FALSE ELSE hasUpnpc = "true"

(***************************************************************************)
(* checkLinuxUPnPComprehensive after the library probe: the probe returned *)
(* libraryResult and the orchestrator calls checkUPnPLinux, which issues   *)
(* the discovery command; or the probe threw and the orchestrator's catch  *)
(* builds the error result.                                                *)
(***************************************************************************)
LibraryReturns(c, libraryResult, opsNow) ==
    /\ lib' = Upd(lib, c, libraryResult)
    /\ work' = Upd(work, c, InitResultLinux)
    /\ ops' = Upd(ops, c, Append(opsNow, Op("native", "discover", 0)))
    /\ pc' = Upd(pc, c, "nat_list")
    /\ UNCHANGED <<nat, ret, escapes>>

\* faulty variant: the orchestrator has no catch and the exception propagates
LibraryEscapesUncaught(c, message, opsNow) ==
    /\ work' = Upd(work, c, NoResult)
    /\ ops' = Upd(ops, c, opsNow)
    /\ pc' = Upd(pc, c, "raised")
    /\ escapes' = Upd(escapes, c, "library")
    /\ UNCHANGED <<lib, nat, ret>>

LibraryEscapes(c, message, opsNow) ==
    /\ ret' = Upd(ret, c, LinuxOrchestratorError(message))
    /\ work' = Upd(work, c, NoResult)
    /\ ops' = Upd(ops, c, opsNow)
    /\ pc' = Upd(pc, c, "done")
    /\ escapes' = Upd(escapes, c, "library")
    /\ UNCHANGED <<lib, nat>>

\* faulty variant: the probe has no finally block, only the inline close
LibraryFinallyMissing(c, result, priorCloses, opsNow, drawnNow) ==
    /\ drawn' = Upd(drawn, c, drawnNow)
    /\ closeCalls' = Upd(closeCalls, c, priorCloses)
    /\ client' = Upd(client, c, IF priorCloses > 0 THEN "closed" ELSE "open")
    /\ LibraryReturns(c, result, opsNow)

\* finally { if (client) client.close(); } with the client created
LibraryFinally(c, result, priorCloses, opsNow, drawnNow) ==
    \E closing \in CloseOutcomes :
        LET opsClosed == Append(opsNow, Op("library", "close", 0))
        IN /\ drawn' = Upd(drawn, c, ("close" :> closing) @@ drawnNow)
           /\ closeCalls' = Upd(closeCalls, c, priorCloses + 1)
           /\ client' = Upd(client, c, "closed")
           /\ IF closing = "throw"
              THEN LibraryEscapes(c, CloseThrowMessage, opsClosed)
              ELSE LibraryReturns(c, result, opsClosed)

\* faulty variant: the orchestrator starts both probes at once (Promise.all)
LibraryStartParallel(c, drawnNow) ==
    /\ client' = Upd(client, c, "open")
    /\ work' = Upd(work, c, InitResultLinux)
    /\ ops' = Upd(ops, c, <<Op("library", "discover", 0), Op("native", "discover", 0)>>)
    /\ pc' = Upd(pc, c, "lib_externalIp")
    /\ drawn' = Upd(drawn, c, drawnNow)
    /\ UNCHANGED <<lib, nat, ret, closeCalls, escapes>>

\* checkUPnPWithLibraryLinux from its start to the first await
LibraryStart(c, drawnNow) ==
    \E created \in {"ok", "throw"} :
        IF created = "throw"
        THEN /\ LibraryReturns(c, SetDetail(InitResultLinux, "error", ClientThrowMessage),
                               ops[c])
             /\ drawn' = Upd(drawn, c, ("createClient" :> created) @@ drawnNow)
             /\ UNCHANGED <<client, closeCalls>>
        ELSE \E call \in CallOutcomes :
                LET opsNow == Append(ops[c], Op("library", "discover", 0))
                    drawnCall == ("createClient" :> created)
                                     @@ ("externalIpCall" :> call) @@ drawnNow
                IN IF call = "throw"
                   THEN LibraryFinally(c,
                            SetDetail(InitResultLinux, "error", ClientThrowMessage),
                            0, opsNow, drawnCall)
                   ELSE /\ client' = Upd(client, c, "open")
                        /\ drawn' = Upd(drawn, c, drawnCall)
                        /\ work' = Upd(work, c, InitResultLinux)
                        /\ ops' = Upd(ops, c, opsNow)
                        /\ pc' = Upd(pc, c, "lib_externalIp")
                        /\ UNCHANGED <<lib, nat, ret, closeCalls, escapes>>

\* a request arrives on channel c and checkLinuxUPnPComprehensive starts
RequestLinux(c) ==
    /\ platform = "linux"
    /\ pc[c] = "idle"
    /\ \E hasUpnpc \in {"true", "false", "throw"} :
        LET isUpnpcAvailable == CheckLinuxUPnPToolAvailability(hasUpnpc)
            drawnNow == ("hasUpnpc" :> hasUpnpc) @@ drawn[c]
        IN /\ avail' = Upd(avail, c, hasUpnpc)
           /\ IF ~isUpnpcAvailable
              THEN /\ ret' = Upd(ret, c, MissingDependencyResult)
                   /\ pc' = Upd(pc, c, "done")
                   /\ drawn' = Upd(drawn, c, drawnNow)
                   /\ UNCHANGED <<work, lib, nat, client, closeCalls, ops, escapes>>
              ELSE LibraryStart(c, drawnNow)
    /\ UNCHANGED <<app, disk, tracer, ipQuery, sysInfo,
                 platform, previous, appPaths, partition, gateway, localIp, toolPath, locatedPath, packaged>>

\* client.externalIp calls back
LibExternalIp(c) ==
    /\ pc[c] = "lib_externalIp"
    /\ \E answer \in {"ip", "noip", "err"} :
        IF answer # "ip"
        THEN LET result == PushRecommendation(SetDetail(work[c], "error", ErrNoIGD),
                                              RecCheckRouter)
             IN \E closing \in CloseOutcomes :
                    LibraryFinally(c,
                        IF closing = "throw"
                        THEN SetDetail(result, "error", CloseThrowMessage)
                        ELSE result,
                        1, Append(ops[c], Op("library", "close", 0)),
                        ("externalIp" :> answer) @@ ("closeInline" :> closing)
                            @@ drawn[c])
        ELSE LET result == IgdFoundLibrary(work[c], ExternalIpText)
                 opsNow == Append(ops[c], Op("library", "add", LibraryTestPort))
             IN \E call \in CallOutcomes :
                    LET drawnCall == ("externalIp" :> answer)
                                         @@ ("createMappingCall" :> call) @@ drawn[c]
                    IN
                    IF call = "throw"
                    THEN LibraryFinally(c, SetDetail(result, "error", ClientThrowMessage),
                                        0, opsNow, drawnCall)
                    ELSE /\ work' = Upd(work, c, result)
                         /\ drawn' = Upd(drawn, c, drawnCall)
                         /\ ops' = Upd(ops, c, opsNow)
                         /\ pc' = Upd(pc, c, "lib_createMapping")
                         /\ UNCHANGED <<lib, nat, ret, client, closeCalls, escapes>>
    /\ UNCHANGED <<app, disk, tracer, ipQuery, sysInfo,
                 platform, previous, appPaths, partition, avail, gateway, localIp, toolPath, locatedPath, packaged>>

\* client.createMapping calls back
LibCreateMapping(c) ==
    /\ pc[c] = "lib_createMapping"
    /\ \E err \in BOOLEAN :
        LET result == [work[c] EXCEPT !.addMapping = ~err]
            opsNow == Append(ops[c], Op("library", "remove", LibraryTestPort))
        IN /\ gateway' = IF err THEN gateway
                         ELSE [gateway EXCEPT ![LibraryTestPort] = c]
           /\ \E call \in CallOutcomes :
                LET drawnCall == ("createMapping" :> err)
                                     @@ ("removeMappingCall" :> call) @@ drawn[c]
                IN
                IF call = "throw"
                THEN LibraryFinally(c, SetDetail(result, "error", ClientThrowMessage),
                                    0, opsNow, drawnCall)
                ELSE /\ work' = Upd(work, c, result)
                     /\ drawn' = Upd(drawn, c, drawnCall)
                     /\ ops' = Upd(ops, c, opsNow)
                     /\ pc' = Upd(pc, c, "lib_removeMapping")
                     /\ UNCHANGED <<lib, nat, ret, client, closeCalls, escapes>>
    /\ UNCHANGED <<app, disk, tracer, ipQuery, sysInfo,
                 platform, previous, appPaths, partition, avail, localIp, toolPath, locatedPath, packaged>>

\* client.removeMapping calls back
LibRemoveMapping(c) ==
    /\ pc[c] = "lib_removeMapping"
    /\ \E err \in BOOLEAN :
        /\ gateway' = IF err THEN gateway
                      ELSE [gateway EXCEPT ![LibraryTestPort] = "none"]
        /\ LibraryFinally(c, VerdictLibrary([work[c] EXCEPT !.removeMapping = ~err]),
                          0, ops[c], ("removeMapping" :> err) @@ drawn[c])
    /\ UNCHANGED <<app, disk, tracer, ipQuery, sysInfo,
                 platform, previous, appPaths, partition, avail, localIp, toolPath, locatedPath, packaged>>

(***************************************************************************)
(* checkUPnPLinux returned nativeResult: the orchestrator merges and       *)
(* returns.                                                                *)
(***************************************************************************)
NativeReturnsLinux(c, nativeResult) ==
    /\ nat' = Upd(nat, c, nativeResult)
    /\ ret' = Upd(ret, c, MergeLinux(lib[c], nativeResult))
    /\ work' = Upd(work, c, NoResult)
    /\ pc' = Upd(pc, c, "done")
    /\ UNCHANGED <<lib, ops>>

NoGatewayText(listOutput) ==
    \/ Includes(listOutput, "No IGD UPnP Device found")
    \/ Includes(listOutput, "No valid UPNP Internet Gateway Device found")

\* 'upnpc -i -l' completes
NatList(c) ==
    /\ pc[c] = "nat_list"
    /\ \E out \in ExecOutcomes(ListTexts) :
        LET drawnList == ("list" :> out) @@ drawn[c]
        IN
        IF out.exit = "fail"
        THEN /\ NativeReturnsLinux(c, SetDetail(work[c], "error", ExecErrorMessage))
             /\ drawn' = Upd(drawn, c, drawnList)
             /\ UNCHANGED localIp
        ELSE IF NoGatewayText(out.stdout)
        THEN /\ NativeReturnsLinux(c,
                    PushRecommendation(SetDetail(work[c], "error", ErrNoIGD),
                                       RecCheckRouter))
             /\ drawn' = Upd(drawn, c, drawnList)
             /\ UNCHANGED localIp
        ELSE LET result == IgdFoundLinux(work[c], out.stdout)
             IN \/ /\ NativeReturnsLinux(c,
                          SetDetail(result, "error", InterfacesThrowMessage))
                   /\ drawn' = Upd(drawn, c, ("interfaces" :> Threw) @@ drawnList)
                   /\ UNCHANGED localIp
                \/ \E interfaces \in InterfaceConfigs :
                      /\ drawn' = Upd(drawn, c,
                                      ("interfaces" :> Gave(interfaces)) @@ drawnList)
                      /\ localIp' = Upd(localIp, c, FirstLocalIp(interfaces))
                      /\ IF FirstLocalIp(interfaces) = ""
                         THEN NativeReturnsLinux(c,
                                  SetDetail(result, "error", ErrNoLocalIp))
                         ELSE /\ work' = Upd(work, c, result)
                              /\ ops' = Upd(ops, c,
                                     Append(ops[c],
                                            Op("native", "add", LinuxNativeTestPort)))
                              /\ pc' = Upd(pc, c, "nat_add")
                              /\ UNCHANGED <<lib, nat, ret>>
    /\ UNCHANGED <<app, disk, tracer, ipQuery, sysInfo,
                 platform, previous, appPaths, partition, avail, client, closeCalls, gateway, toolPath, locatedPath,
                   escapes, packaged>>

\* 'upnpc -i -a <localIp> 8080 8080 TCP' completes
NatAdd(c) ==
    /\ pc[c] = "nat_add"
    /\ \E out \in ExecOutcomes(MapTexts) :
        /\ drawn' = Upd(drawn, c, ("add" :> out) @@ drawn[c])
        /\ work' = Upd(work, c,
              IF out.exit = "ok"
              THEN SetDetail([work[c] EXCEPT !.addMapping = OutputOk(out.stdout)],
                             "addOutput", out.stdout)
              ELSE SetDetail([work[c] EXCEPT !.addMapping = FALSE],
                             "addError", ExecErrorMessage))
        /\ gateway' = IF out.exit = "ok" /\ OutputOk(out.stdout)
                      THEN [gateway EXCEPT ![LinuxNativeTestPort] = c]
                      ELSE gateway
    /\ ops' = Upd(ops, c, Append(ops[c], Op("native", "remove", LinuxNativeTestPort)))
    /\ pc' = Upd(pc, c, "nat_remove")
    /\ UNCHANGED <<app, disk, tracer, ipQuery, sysInfo,
                 platform, previous, appPaths, partition, avail, lib, nat, ret, client, closeCalls, localIp, toolPath, locatedPath,
                   escapes, packaged>>

\* 'upnpc -i -d 8080 TCP' completes
NatRemove(c) ==
    /\ pc[c] = "nat_remove"
    /\ \E out \in ExecOutcomes(MapTexts) :
        /\ drawn' = Upd(drawn, c, ("remove" :> out) @@ drawn[c])
        /\ NativeReturnsLinux(c, VerdictLinux(
              IF out.exit = "ok"
              THEN SetDetail([work[c] EXCEPT !.removeMapping = OutputOk(out.stdout)],
                             "removeOutput", out.stdout)
              ELSE SetDetail([work[c] EXCEPT !.removeMapping = FALSE],
                             "removeError", ExecErrorMessage)))
        /\ gateway' = IF out.exit = "ok" /\ OutputOk(out.stdout)
                      THEN [gateway EXCEPT ![LinuxNativeTestPort] = "none"]
                      ELSE gateway
    /\ UNCHANGED <<app, disk, tracer, ipQuery, sysInfo,
                 platform, previous, appPaths, partition, avail, client, closeCalls, localIp, toolPath, locatedPath,
                   escapes, packaged>>

(***************************************************************************)
(* windows-checks.js.  A path is the sequence of its segments.             *)
(***************************************************************************)
RECURSIVE Normalize(_, _)
Normalize(segments, acc) ==
    IF segments = <<>> THEN acc
    ELSE IF Head(segments) = ".."
    THEN Normalize(Tail(segments),
                   IF acc = <<>> THEN acc ELSE SubSeq(acc, 1, Len(acc) - 1))
    ELSE Normalize(Tail(segments), Append(acc, Head(segments)))

PathJoin(base, rest) == Normalize(base \o rest, <<>>)

Dirname(path) == SubSeq(path, 1, Len(path) - 1)

ExeName == "upnpc-static.exe"

AppPath(isPackaged) ==
    IF isPackaged THEN <<"C:", "App", "resources", "app.asar">>
    ELSE <<"C:", "dev", "node-checker-IGD">>

ModuleDirname(isPackaged) == AppPath(isPackaged) \o <<"platforms">>

UserDataPath == <<"C:", "Users", "u", "AppData", "Roaming", "app">>
ProgramFilesPath == <<"C:", "Program Files">>
ProgramFilesX86Path == <<"C:", "Program Files (x86)">>

ExePaths(isPackaged) ==
    LET appPath == AppPath(isPackaged)
        appDir == Dirname(appPath)
    IN (IF isPackaged
        THEN << PathJoin(appDir, <<"resources", ExeName>>),
                PathJoin(appPath, <<"..", ExeName>>),
                PathJoin(appDir, <<"resources", "app.asar.unpacked", "resources", ExeName>>),
                PathJoin(appPath, <<"..", "app.asar.unpacked", "resources", ExeName>>) >>
        ELSE <<>>)
       \o << PathJoin(appPath, <<"resources", ExeName>>),
             PathJoin(ModuleDirname(isPackaged), <<"..", "resources", ExeName>>),
             PathJoin(UserDataPath, <<"resources", ExeName>>),
             PathJoin(ProgramFilesPath, <<"YOM", "YOM Node Inspector", "resources", ExeName>>),
             PathJoin(ProgramFilesX86Path, <<"YOM", "YOM Node Inspector", "resources", ExeName>>) >>

\* faulty variant: the locators do not skip paths inside the archive
InsideAsarNever(exePath) == FALSE

\* exePath.includes('app.asar' + path.sep): the segment app.asar followed by a separator
InsideAsar(exePath) == \E i \in 1..(Len(exePath) - 1) : exePath[i] = "app.asar"

\* the file system as the locator sees it: the files that exist, and those readable
FsConfigs ==
    LET extra == <<"C:", "App", "resources", ExeName>>
        nested == <<"C:", "App", "resources", "resources", ExeName>>
        inAsar == <<"C:", "App", "resources", "app.asar", "resources", ExeName>>
        dev == <<"C:", "dev", "node-checker-IGD", "resources", ExeName>>
        user == PathJoin(UserDataPath, <<"resources", ExeName>>)
    IN { [exists |-> {}, readable |-> {}],
         [exists |-> {inAsar}, readable |-> {inAsar}],
         [exists |-> {extra, inAsar}, readable |-> {extra, inAsar}],
         [exists |-> {nested, user}, readable |-> {user}],
         [exists |-> {dev}, readable |-> {dev}],
         [exists |-> {nested, dev}, readable |-> {}] }

RECURSIVE FirstUsable(_, _, _)
FirstUsable(exePaths, i, fs) ==
    IF i > Len(exePaths) THEN <<>>
    ELSE IF /\ exePaths[i] \in fs.exists
            /\ ~InsideAsar(exePaths[i])
            /\ exePaths[i] \in fs.readable
    THEN exePaths[i]
    ELSE FirstUsable(exePaths, i + 1, fs)

\* findUpnpcPath of the main process: its candidates, main.js being in the app root
PossiblePaths(isPackaged) ==
    LET appPath == AppPath(isPackaged)
        appDir == Dirname(appPath)
    IN (IF isPackaged
        THEN << PathJoin(appDir, <<"resources", ExeName>>),
                PathJoin(appPath, <<"..", ExeName>>),
                PathJoin(appDir, <<"resources", "app.asar.unpacked", "resources", ExeName>>),
                PathJoin(appPath, <<"..", "app.asar.unpacked", "resources", ExeName>>) >>
        ELSE <<>>)
       \o << PathJoin(appPath, <<"resources", ExeName>>),
             PathJoin(appPath, <<"resources", ExeName>>),
             PathJoin(ProgramFilesPath, <<"YOM", "YOM Node Inspector", "resources", ExeName>>),
             PathJoin(ProgramFilesX86Path, <<"YOM", "YOM Node Inspector", "resources", ExeName>>),
             PathJoin(UserDataPath, <<"resources", ExeName>>) >>

\* the path found, or <<>> for null
FindUpnpcPath(isPackaged, fs) ==
    LET found == FirstUsable(PossiblePaths(isPackaged), 1, fs)
        directPath == PathJoin(Dirname(AppPath(isPackaged)), <<"resources", ExeName>>)
    IN IF found # <<>> THEN found
       ELSE IF isPackaged /\ directPath \in fs.exists /\ directPath \in fs.readable
       THEN directPath
       ELSE <<>>

\* faulty variant: the first existing candidate outside the archive is returned
\* without the access check
CheckWindowsUPnPToolAvailabilityNoAccess(isPackaged, fs) ==
    LET exePaths == ExePaths(isPackaged)
        existing == {i \in DOMAIN exePaths :
                        exePaths[i] \in fs.exists /\ ~InsideAsar(exePaths[i])}
    IN IF existing = {} THEN [available |-> FALSE]
       ELSE [available |-> TRUE,
             path |-> exePaths[CHOOSE i \in existing : \A j \in existing : i <= j]]

CheckWindowsUPnPToolAvailability(isPackaged, fs) ==
    LET found == FirstUsable(ExePaths(isPackaged), 1, fs)
        directPath == PathJoin(Dirname(AppPath(isPackaged)), <<"resources", ExeName>>)
    IN IF found # <<>> THEN [available |-> TRUE, path |-> found]
       ELSE IF isPackaged /\ directPath \in fs.exists /\ directPath \in fs.readable
       THEN [available |-> TRUE, path |-> directPath]
       ELSE [available |-> FALSE]

WindowsUnavailableResult ==
    [status |-> "UNKNOWN", enabled |-> FALSE, error |-> "UPnP tool not available",
     details |-> ("error" :> "UPnP checking tool not found"),
     recommendations |-> <<RecCompleteInstall>>,
     method |-> "none", platform |-> "windows", nativeToolAvailable |-> FALSE]

WindowsOrchestratorError(message) ==
    [status |-> "FAIL", enabled |-> FALSE, error |-> message,
     details |-> ("error" :> "Unexpected error during UPnP check"),
     platform |-> "windows"]

\* faulty variant: the resolved path is not attached to the result
TagWindowsNoPath(result, path) ==
    [method |-> "native", platform |-> "windows"] @@ result

TagWindows(result, path) ==
    [method |-> "native", platform |-> "windows", toolPath |-> path] @@ result

\* checkUPnPWindows returned result: the orchestrator tags and returns it
NativeReturnsWindows(c, result, path, opsNow) ==
    /\ nat' = Upd(nat, c, result)
    /\ ret' = Upd(ret, c, TagWindows(result, path))
    /\ work' = Upd(work, c, NoResult)
    /\ ops' = Upd(ops, c, opsNow)
    /\ pc' = Upd(pc, c, "done")

\* faulty variant: the probe issues the add command together with the discovery
\* command instead of awaiting discovery first
NativeStartWindowsEager(c, path, opsNow, drawnNow) ==
    /\ toolPath' = Upd(toolPath, c, path)
    /\ work' = Upd(work, c, InitResultWindows)
    /\ ops' = Upd(ops, c, opsNow \o <<Op("native", "discover", 0),
                                      Op("native", "add", WindowsTestPort)>>)
    /\ pc' = Upd(pc, c, "win_list")
    /\ drawn' = Upd(drawn, c, drawnNow)
    /\ UNCHANGED <<nat, ret>>

\* checkUPnPWindows from its start to the first await
NativeStartWindows(c, path, opsNow, drawnNow) ==
    \/ /\ NativeReturnsWindows(c,
              SetDetail(InitResultWindows, "error", LocatorThrowMessage), path, opsNow)
       /\ drawn' = Upd(drawn, c, ("probeFs" :> Threw) @@ drawnNow)
       /\ UNCHANGED toolPath
    \/ \E fs \in FsConfigs :
          LET toolCheck == CheckWindowsUPnPToolAvailability(packaged, fs)
          IN /\ drawn' = Upd(drawn, c, ("probeFs" :> Gave(fs)) @@ drawnNow)
             /\ IF ~toolCheck.available
                THEN /\ NativeReturnsWindows(c,
                           PushRecommendation(
                               SetDetail(InitResultWindows, "error",
                                         "upnpc-static.exe not found"),
                               RecToolNotFound),
                           path, opsNow)
                     /\ UNCHANGED toolPath
                ELSE /\ toolPath' = Upd(toolPath, c, toolCheck.path)
                     /\ work' = Upd(work, c, InitResultWindows)
                     /\ ops' = Upd(ops, c,
                                   Append(opsNow, Op("native", "discover", 0)))
                     /\ pc' = Upd(pc, c, "win_list")
                     /\ UNCHANGED <<nat, ret>>

\* the locator threw inside checkWindowsUPnPComprehensive: its catch builds the result
LocatorEscapes(c, message) ==
    /\ ret' = Upd(ret, c, WindowsOrchestratorError(message))
    /\ pc' = Upd(pc, c, "done")
    /\ escapes' = Upd(escapes, c, "locator")

\* a request arrives on channel c and checkWindowsUPnPComprehensive starts
RequestWindows(c) ==
    /\ platform = "windows"
    /\ pc[c] = "idle"
    /\ \/ /\ avail' = Upd(avail, c, "throw")
          /\ LocatorEscapes(c, LocatorThrowMessage)
          /\ drawn' = Upd(drawn, c, ("fs" :> Threw) @@ drawn[c])
          /\ UNCHANGED <<work, nat, ops, toolPath, locatedPath>>
       \/ \E fs \in FsConfigs :
             LET toolCheck == CheckWindowsUPnPToolAvailability(packaged, fs)
                 drawnNow == ("fs" :> Gave(fs)) @@ drawn[c]
             IN IF toolCheck.available
                THEN /\ avail' = Upd(avail, c, "true")
                     /\ locatedPath' = Upd(locatedPath, c, toolCheck.path)
                     /\ NativeStartWindows(c, toolCheck.path, ops[c], drawnNow)
                     /\ UNCHANGED escapes
                ELSE /\ avail' = Upd(avail, c, "false")
                     /\ drawn' = Upd(drawn, c, drawnNow)
                     /\ ret' = Upd(ret, c, WindowsUnavailableResult)
                     /\ pc' = Upd(pc, c, "done")
                     /\ UNCHANGED <<work, nat, ops, toolPath, locatedPath, escapes>>
    /\ UNCHANGED <<app, disk, tracer, ipQuery, sysInfo,
                 platform, previous, appPaths, partition, lib, client, closeCalls, gateway, localIp, packaged>>

StatusTexts == {"ExternalIPAddress = 203.0.113.10", "Connection status unknown"}

ExtractExternalIp(output) ==
    IF output = "ExternalIPAddress = 203.0.113.10" THEN "203.0.113.10" ELSE ""

\* getExternalIpWithUpnpc: '' stands for null
GetExternalIpWithUpnpc(out) ==
    IF out.exit = "ok" THEN ExtractExternalIp(out.stdout) ELSE ""

\* answers of the public IP service: an address, an empty body, or a request error ('')
ApiAnswers == {"198.51.100.7", ""}

\* '"<upnpcPath>" -l' completes
WinList(c) ==
    /\ pc[c] = "win_list"
    /\ \E out \in ExecOutcomes(ListTexts) :
        /\ drawn' = Upd(drawn, c, ("list" :> out) @@ drawn[c])
        /\ IF out.exit = "fail"
           THEN NativeReturnsWindows(c, SetDetail(work[c], "error", ExecErrorMessage),
                                     locatedPath[c], ops[c])
           ELSE IF NoGatewayText(out.stdout)
           THEN NativeReturnsWindows(c,
                    PushRecommendation(SetDetail(work[c], "error", ErrNoIGD),
                                       RecCheckRouter),
                    locatedPath[c], ops[c])
           ELSE /\ work' = Upd(work, c, IgdFoundWindows(work[c], out.stdout))
                /\ ops' = Upd(ops, c, Append(ops[c], Op("native", "externalIp", 0)))
                /\ pc' = Upd(pc, c, "win_externalIp")
                /\ UNCHANGED <<nat, ret>>
    /\ UNCHANGED <<app, disk, tracer, ipQuery, sysInfo,
                 platform, previous, appPaths, partition, avail, lib, client, closeCalls, gateway, localIp,
                   toolPath, locatedPath, escapes, packaged>>

\* the external address is known (helper, else public service); local address scan
WinExternalIp(c) ==
    /\ pc[c] = "win_externalIp"
    /\ \E out \in ExecOutcomes(StatusTexts), api \in ApiAnswers :
        LET viaUpnpc == GetExternalIpWithUpnpc(out)
            externalIp == IF viaUpnpc # "" THEN viaUpnpc ELSE api
            result == IF externalIp # ""
                      THEN SetDetail(work[c], "externalIp", externalIp)
                      ELSE work[c]
            drawnIp == ("status" :> out) @@ ("api" :> api) @@ drawn[c]
        IN \/ /\ NativeReturnsWindows(c,
                     SetDetail(result, "error", InterfacesThrowMessage),
                     locatedPath[c], ops[c])
              /\ drawn' = Upd(drawn, c, ("interfaces" :> Threw) @@ drawnIp)
              /\ UNCHANGED localIp
           \/ \E interfaces \in InterfaceConfigs :
                 /\ drawn' = Upd(drawn, c,
                                 ("interfaces" :> Gave(interfaces)) @@ drawnIp)
                 /\ localIp' = Upd(localIp, c, FirstLocalIp(interfaces))
                 /\ IF FirstLocalIp(interfaces) = ""
                    THEN NativeReturnsWindows(c,
                             SetDetail(result, "error", ErrNoLocalIp),
                             locatedPath[c], ops[c])
                    ELSE /\ work' = Upd(work, c, result)
                         /\ ops' = Upd(ops, c,
                                Append(ops[c], Op("native", "add", WindowsTestPort)))
                         /\ pc' = Upd(pc, c, "win_add")
                         /\ UNCHANGED <<nat, ret>>
    /\ UNCHANGED <<app, disk, tracer, ipQuery, sysInfo,
                 platform, previous, appPaths, partition, avail, lib, client, closeCalls, gateway,
                   toolPath, locatedPath, escapes, packaged>>

\* '"<upnpcPath>" -a <localIp> 44444 44444 TCP 0' completes
WinAdd(c) ==
    /\ pc[c] = "win_add"
    /\ \E out \in ExecOutcomes(MapTexts) :
        /\ drawn' = Upd(drawn, c, ("add" :> out) @@ drawn[c])
        /\ work' = Upd(work, c,
              IF out.exit = "ok"
              THEN SetDetail([work[c] EXCEPT !.addMapping = OutputOk(out.stdout)],
                             "addOutput", out.stdout)
              ELSE SetDetail([work[c] EXCEPT !.addMapping = FALSE],
                             "addError", ExecErrorMessage))
        /\ gateway' = IF out.exit = "ok" /\ OutputOk(out.stdout)
                      THEN [gateway EXCEPT ![WindowsTestPort] = c]
                      ELSE gateway
    /\ ops' = Upd(ops, c, Append(ops[c], Op("native", "remove", WindowsTestPort)))
    /\ pc' = Upd(pc, c, "win_remove")
    /\ UNCHANGED <<app, disk, tracer, ipQuery, sysInfo,
                 platform, previous, appPaths, partition, avail, lib, nat, ret, client, closeCalls, localIp,
                   toolPath, locatedPath, escapes, packaged>>

\* '"<upnpcPath>" -d 44444 TCP' completes
WinRemove(c) ==
    /\ pc[c] = "win_remove"
    /\ \E out \in ExecOutcomes(MapTexts) :
        /\ drawn' = Upd(drawn, c, ("remove" :> out) @@ drawn[c])
        /\ NativeReturnsWindows(c, VerdictWindows(
              IF out.exit = "ok"
              THEN SetDetail([work[c] EXCEPT !.removeMapping = OutputOk(out.stdout)],
                             "removeOutput", out.stdout)
              ELSE SetDetail([work[c] EXCEPT !.removeMapping = FALSE],
                             "removeError", ExecErrorMessage)),
              locatedPath[c], ops[c])
        /\ gateway' = IF out.exit = "ok" /\ OutputOk(out.stdout)
                      THEN [gateway EXCEPT ![WindowsTestPort] = "none"]
                      ELSE gateway
    /\ UNCHANGED <<app, disk, tracer, ipQuery, sysInfo,
                 platform, previous, appPaths, partition, avail, lib, client, closeCalls, localIp,
                   toolPath, locatedPath, escapes, packaged>>

(***************************************************************************)
(* The handler's promise settles: the result is delivered to the renderer  *)
(* and the run's objects are dropped.  A mapping the run left on the       *)
(* router stays there.                                                     *)
(***************************************************************************)
Forget(c) ==
    /\ pc[c] \in {"done", "raised"}
    /\ pc' = Upd(pc, c, "idle")
    /\ avail' = Upd(avail, c, "unknown")
    /\ work' = Upd(work, c, NoResult)
    /\ lib' = Upd(lib, c, NoResult)
    /\ nat' = Upd(nat, c, NoResult)
    /\ ret' = Upd(ret, c, NoResult)
    /\ client' = Upd(client, c, "none")
    /\ closeCalls' = Upd(closeCalls, c, 0)
    /\ ops' = Upd(ops, c, <<>>)
    /\ localIp' = Upd(localIp, c, "")
    /\ toolPath' = Upd(toolPath, c, <<>>)
    /\ locatedPath' = Upd(locatedPath, c, <<>>)
    /\ escapes' = Upd(escapes, c, "none")
    /\ drawn' = Upd(drawn, c, EmptyObject)
    /\ gateway' = [p \in Ports |-> IF gateway[p] = c THEN "stale" ELSE gateway[p]]
    /\ UNCHANGED <<platform, appPaths, packaged, partition, app, disk, tracer, ipQuery, sysInfo>>

Deliver(c) == Forget(c) /\ UNCHANGED previous

\* the renderer requests a check only when no other request is in flight
OthersIdle(c) ==
    /\ \A d \in Channels \ {c} : pc[d] = "idle"
    /\ appPaths = NoResult
    /\ partition = PartitionIdle

\* the 'get-app-paths' handler runs: its upnpc entry is what findUpnpcPath finds
GetAppPaths ==
    /\ \A c \in Channels : pc[c] = "idle"
    /\ appPaths = NoResult
    /\ partition = PartitionIdle
    /\ \E fs \in FsConfigs :
          appPaths' = [fs |-> fs, upnpc |-> FindUpnpcPath(packaged, fs)]
    /\ UNCHANGED <<platform, pc, avail, work, lib, nat, ret, client, closeCalls, ops,
                   gateway, localIp, toolPath, locatedPath, escapes, drawn, previous,
                   packaged, partition, app, disk, tracer, ipQuery, sysInfo>>

\* the reply of 'get-app-paths' is delivered to the renderer
DeliverAppPaths ==
    /\ appPaths # NoResult
    /\ appPaths' = NoResult
    /\ UNCHANGED <<platform, pc, avail, work, lib, nat, ret, client, closeCalls, ops,
                   gateway, localIp, toolPath, locatedPath, escapes, drawn, previous,
                   packaged, partition, app, disk, tracer, ipQuery, sysInfo>>

(***************************************************************************)
(* The 'check-partition-style' handler on Linux: checkLinuxPartitionStyle  *)
(* runs lsblk, and in the catch of that call runs fdisk piped to grep.     *)
(***************************************************************************)
PartitionFrame ==
    UNCHANGED <<platform, pc, avail, work, lib, nat, ret, client, closeCalls, ops,
                gateway, localIp, toolPath, locatedPath, escapes, drawn, previous,
                appPaths, packaged, app, disk, tracer, ipQuery, sysInfo>>

\* the handler is entered and awaits the primary command
CheckLinuxPartitionStyle ==
    /\ platform = "linux"
    /\ \A c \in Channels : pc[c] = "idle"
    /\ appPaths = NoResult
    /\ partition = PartitionIdle
    /\ partition' = [PartitionIdle EXCEPT !.pc = "lsblk", !.ran = <<LsblkCommand>>]
    /\ PartitionFrame

\* lsblk answers: its text is returned, or its failure starts the alternative
LsblkAnswers ==
    /\ partition.pc = "lsblk"
    /\ \E out \in {Threw} \cup {Gave(t) : t \in LsblkTexts} :
          LET seen == ("lsblk" :> out) @@ partition.drawn
          IN IF out.threw
             THEN partition' = [partition EXCEPT !.pc = "fdisk",
                                                 !.ran = Append(@, FdiskCommand),
                                                 !.drawn = seen]
             ELSE partition' = [partition EXCEPT
                      !.pc = "done", !.drawn = seen,
                      !.ret = [style |-> out.value, platform |-> "linux",
                               formatted |-> FormatLinuxPartitionOutput(out.value, FALSE)]]
    /\ PartitionFrame

\* fdisk answers: its text is returned, or the error object is
FdiskAnswers ==
    /\ partition.pc = "fdisk"
    /\ \E out \in {Threw} \cup {Gave(t) : t \in FdiskTexts} :
          LET seen == ("fdisk" :> out) @@ partition.drawn
          IN IF out.threw
             THEN partition' = [partition EXCEPT !.pc = "done", !.drawn = seen,
                                                 !.ret = PartitionFailure]
             ELSE partition' = [partition EXCEPT
                      !.pc = "done", !.drawn = seen,
                      !.ret = [style |-> out.value, platform |-> "linux",
                               formatted |-> FormatLinuxPartitionOutput(out.value, TRUE)]]
    /\ PartitionFrame

\* the reply of 'check-partition-style' is delivered to the renderer
DeliverPartitionStyle ==
    /\ partition.pc = "done"
    /\ partition' = PartitionIdle
    /\ PartitionFrame

Next ==
    \E c \in Channels :
        \/ OthersIdle(c) /\ RequestLinux(c)
        \/ OthersIdle(c) /\ RequestWindows(c)
        \/ WinList(c)
        \/ WinExternalIp(c)
        \/ WinAdd(c)
        \/ WinRemove(c)
        \/ LibExternalIp(c)
        \/ LibCreateMapping(c)
        \/ LibRemoveMapping(c)
        \/ NatList(c)
        \/ NatAdd(c)
        \/ NatRemove(c)
        \/ Deliver(c)
        \/ GetAppPaths
        \/ DeliverAppPaths
        \/ CheckLinuxPartitionStyle
        \/ LsblkAnswers
        \/ FdiskAnswers
        \/ DeliverPartitionStyle

Spec == Init /\ [][Next]_vars

(***************************************************************************)
(* Repeated runs against an unchanged environment: the status and the      *)
(* environment's answers of a delivered run are kept, and in the following *)
(* runs every call is answered as it was answered in the kept run (tool    *)
(* availability, file system, protocol client, gateway commands, network   *)
(* interfaces).  What a run left on the router stays there.                *)
(***************************************************************************)
SameEnvironment ==
    \/ previous = NoResult
    \/ \A c \in Channels :
          \A k \in DOMAIN drawn[c] \cap DOMAIN previous.drawn :
              drawn[c][k] = previous.drawn[k]

DeliverRemembering(c) ==
    /\ pc[c] = "done"
    /\ Forget(c)
    /\ previous' = [status |-> ret[c].status, drawn |-> drawn[c]]

NextRepeat ==
    \E c \in Channels :
        \/ OthersIdle(c) /\ RequestLinux(c) /\ SameEnvironment'
        \/ OthersIdle(c) /\ RequestWindows(c) /\ SameEnvironment'
        \/ WinList(c) /\ SameEnvironment'
        \/ WinExternalIp(c) /\ SameEnvironment'
        \/ WinAdd(c) /\ SameEnvironment'
        \/ WinRemove(c) /\ SameEnvironment'
        \/ LibExternalIp(c) /\ SameEnvironment'
        \/ LibCreateMapping(c) /\ SameEnvironment'
        \/ LibRemoveMapping(c) /\ SameEnvironment'
        \/ NatList(c) /\ SameEnvironment'
        \/ NatAdd(c) /\ SameEnvironment'
        \/ NatRemove(c) /\ SameEnvironment'
        \/ DeliverRemembering(c)

SpecRepeat == Init /\ [][NextRepeat]_vars

(***************************************************************************)
(* Overlapping requests: ipcMain.handle runs each request's async handler  *)
(* as soon as it arrives, so a check may start on one channel while the    *)
(* check of the other channel is awaiting an operation.  The environment   *)
(* is the everyday one: upnpc is installed on Linux, the Windows helper is  *)
(* wherever the file system has it, a gateway answers discovery, the host  *)
(* has a local address, nothing throws; mapping commands succeed or are    *)
(* refused by the router.                                                  *)
(***************************************************************************)
EverydayAnswers(k) ==
    CASE k = "hasUpnpc" -> {"true"}
      [] k = "createClient" -> {"ok"}
      [] k \in {"externalIpCall", "createMappingCall", "removeMappingCall"}
            -> {"pending"}
      [] k = "externalIp" -> {"ip"}
      [] k \in {"closeInline", "close"} -> {"ok"}
      [] k \in {"createMapping", "removeMapping"} -> BOOLEAN
      [] k = "list" -> {[exit |-> "ok", stdout |-> TxtFound]}
      [] k = "interfaces" -> {Gave(<< <<Lo4>>, <<Eth6, Eth4>>, <<Wlan4>> >>)}
      [] k \in {"add", "remove"} -> [exit : {"ok"}, stdout : {TxtDone, TxtFailed}]
      [] k \in {"fs", "probeFs"} -> {Gave(fs) : fs \in FsConfigs}
      [] k = "status" -> {[exit |-> "ok", stdout |-> "Connection status unknown"]}
      [] k = "api" -> {"198.51.100.7"}

Everyday ==
    \A c \in Channels :
        \A k \in DOMAIN drawn[c] : drawn[c][k] \in EverydayAnswers(k)

NextConcurrent ==
    \E c \in Channels :
        \/ appPaths = NoResult /\ RequestLinux(c) /\ Everyday'
        \/ appPaths = NoResult /\ RequestWindows(c) /\ Everyday'
        \/ WinList(c) /\ Everyday'
        \/ WinExternalIp(c) /\ Everyday'
        \/ WinAdd(c) /\ Everyday'
        \/ WinRemove(c) /\ Everyday'
        \/ LibExternalIp(c) /\ Everyday'
        \/ LibCreateMapping(c) /\ Everyday'
        \/ LibRemoveMapping(c) /\ Everyday'
        \/ NatList(c) /\ Everyday'
        \/ NatAdd(c) /\ Everyday'
        \/ NatRemove(c) /\ Everyday'
        \/ Deliver(c)

SpecConcurrent == Init /\ [][NextConcurrent]_vars

(***************************************************************************)
(* The application from launch to quit.                                    *)
(***************************************************************************)
checkVars == <<pc, avail, work, lib, nat, ret, client, closeCalls, ops, gateway,
               localIp, toolPath, locatedPath, escapes, drawn, previous, appPaths,
               partition>>

WindowsOpen(a) ==
    {w \in {"mainWindow", "errorWindow"} : a[w] = "open"}

\* app.whenReady() resolves: setupFirstRun runs, any of whose file system calls
\* may throw, then initializeApp up to the lookup of platform details, which
\* only Linux and Windows wait for; elsewhere its catch runs createErrorWindow
AppReady ==
    /\ app.phase = "launching"
    /\ \E fails \in SUBSET {"mkdir config", "mkdir resources", "copy helper",
                              "write env", "write flag"} :
          LET run == SetupFirstRun(disk, fails)
              a == [app EXCEPT !.setup = run.steps]
          IN /\ disk' = run.disk
             /\ app' = IF run.threw THEN [a EXCEPT !.phase = "aborted"]
                       ELSE IF platform \in Platforms
                            THEN [a EXCEPT !.phase = "detecting"]
                            ELSE [a EXCEPT !.phase = "failed", !.errorWindow = "open"]
    /\ UNCHANGED <<checkVars, platform, packaged, tracer, ipQuery, sysInfo>>

\* detectPlatformDetailed resolves: the module is required, then
\* setupIpcHandlers() and createWindow(); if the require throws, the catch
\* runs createErrorWindow
PlatformDetected ==
    /\ app.phase = "detecting"
    /\ \E loads \in BOOLEAN :
          app' = IF loads
                 THEN [app EXCEPT
                          !.phase = "running", !.handlers = TRUE,
                          !.platformChecks = ChecksModule(platform),
                          !.mainWindow = "open"]
                 ELSE [app EXCEPT !.phase = "failed", !.errorWindow = "open"]
    /\ UNCHANGED disk
    /\ UNCHANGED <<checkVars, platform, packaged, tracer, ipQuery, sysInfo>>

\* the user closes a window; 'window-all-closed' calls app.quit() except on
\* darwin, and mainWindow keeps its last value while the process winds down
WindowClosed ==
    /\ \E w \in WindowsOpen(app) :
          LET a == [app EXCEPT ![w] = "destroyed"]
          IN app' = IF WindowsOpen(a) = {} /\ platform # "darwin"
                    THEN [a EXCEPT !.phase = "quit"]
                    ELSE a
    /\ UNCHANGED disk
    /\ UNCHANGED <<checkVars, platform, packaged, tracer, ipQuery, sysInfo>>

\* 'activate' (the dock icon on darwin) with no window open: createWindow()
Activate ==
    /\ platform = "darwin"
    /\ app.phase \notin {"launching", "quit"}
    /\ WindowsOpen(app) = {}
    /\ app' = [app EXCEPT !.mainWindow = "open"]
    /\ UNCHANGED disk
    /\ UNCHANGED <<checkVars, platform, packaged, tracer, ipQuery, sysInfo>>

\* the application is started again on the same user data directory
Relaunch ==
    /\ app.phase = "quit"
    /\ app' = AppLaunching
    /\ UNCHANGED disk
    /\ UNCHANGED <<checkVars, platform, packaged, tracer, ipQuery, sysInfo>>

\* the application is launched on some platform with some user data directory
InitApp ==
    /\ platform \in AppPlatforms
    /\ packaged \in BOOLEAN
    /\ InitChecks
    /\ app = AppLaunching
    /\ disk \in DiskStates
    /\ tracer = TracerIdle
    /\ ipQuery = IpQueryIdle
    /\ sysInfo = SysInfoIdle

NextApp ==
    \/ AppReady
    \/ PlatformDetected
    \/ WindowClosed
    \/ Activate
    \/ Relaunch

SpecApp == InitApp /\ [][NextApp]_vars

(***************************************************************************)
(* The 'perform-traceroute' handler and the callbacks performTraceroute    *)
(* wires to the events of the tracer.                                      *)
(***************************************************************************)
MaxEvents == 3

\* faulty variant: the callback sends without looking at the window
OnCallbackUnguarded(t, event, window) ==
    [t EXCEPT !.sent = Append(@, [event |-> event, window |-> window])]
\* onPid, onDestination, onHop, onClose, onError of the handler: send the
\* event if (mainWindow && !mainWindow.isDestroyed())
OnCallback(t, event, window) ==
    IF window = "open"
    THEN [t EXCEPT !.sent = Append(@, [event |-> event, window |-> window])]
    ELSE t

\* performTraceroute: new Traceroute(), the listeners, tracer.trace(host); what
\* throws on the way is caught and handed to callbacks.onError
PerformTraceroute(t, outcome, window) ==
    IF outcome = "started"
    THEN [t EXCEPT !.pc = "tracing", !.started = TRUE]
    ELSE [OnCallback(t, "error", window) EXCEPT !.pc = "done", !.threw = TRUE]

\* the handler of 'perform-traceroute' from the request to its reply
HandlePerformTraceroute ==
    /\ app.handlers
    /\ tracer.pc = "idle"
    /\ IF app.mainWindow # "open"
       THEN tracer' = [tracer EXCEPT
                          !.pc = "done", !.asked = app.mainWindow,
                          !.reply = [success |-> FALSE,
                                     error |-> "Main window not available."]]
       ELSE \E outcome \in {"started", "constructor threw", "trace threw"} :
               tracer' = [PerformTraceroute(tracer, outcome, app.mainWindow) EXCEPT
                             !.asked = app.mainWindow,
                             !.reply = [success |-> TRUE,
                                        message |-> "Traceroute initiated."]]
    /\ UNCHANGED app
    /\ UNCHANGED <<checkVars, platform, packaged, disk, ipQuery, sysInfo>>

\* the tracer emits an event and the callback wired to it runs
TraceEvent ==
    /\ tracer.pc = "tracing"
    /\ tracer.emitted < MaxEvents
    /\ \E event \in {"pid", "destination", "hop", "close", "error"} :
          tracer' = [OnCallback(tracer, event, app.mainWindow) EXCEPT
                        !.emitted = @ + 1,
                        !.pc = IF event = "close" THEN "done" ELSE @]
    /\ UNCHANGED app
    /\ UNCHANGED <<checkVars, platform, packaged, disk, ipQuery, sysInfo>>

\* the renderer has the reply and the trace is over
TraceForgotten ==
    /\ tracer.pc = "done"
    /\ tracer' = TracerIdle
    /\ UNCHANGED app
    /\ UNCHANGED <<checkVars, platform, packaged, disk, ipQuery, sysInfo>>

(***************************************************************************)
(* The 'get-public-ip' handler: the helper, then the public IP service,    *)
(* then the host's own address, then a sentinel.                           *)
(***************************************************************************)
IpAnswered(q, k, answer) == [q EXCEPT !.drawn = (k :> answer) @@ @]
IpReplied(q, value) == [q EXCEPT !.pc = "done", !.reply = [value |-> value]]

\* faulty variant: the sentinel is resolved without a look at the interfaces
LocalFallbackSentinel(interfaces) == "Unable to detect IP"
\* the 'error' listener of the request: the first external IPv4 address, or
\* the sentinel
LocalFallback(interfaces) ==
    IF FirstLocalIp(interfaces) # "" THEN FirstLocalIp(interfaces)
    ELSE "Unable to detect IP"

\* the handler is entered: findUpnpcPath(), then the helper or the service
GetPublicIp ==
    /\ app.handlers
    /\ ipQuery.pc = "idle"
    /\ \/ ipQuery' = IpReplied(IpAnswered(ipQuery, "path", Threw), "Error detecting IP")
       \/ \E fs \in FsConfigs :
             LET upnpcPath == FindUpnpcPath(packaged, fs)
                 q == IpAnswered(ipQuery, "path", Gave(upnpcPath))
                 \* platformChecks.getExternalIpWithUpnpc: windows-checks exports it
                 source == IF upnpcPath # <<>> /\ platform = "windows"
                           THEN "helper" ELSE "api"
             IN ipQuery' = [q EXCEPT !.pc = source,
                                     !.consulted = Append(@, source)]
    /\ UNCHANGED <<checkVars, platform, packaged, app, disk, tracer, sysInfo>>

\* '"<upnpcPath>" -s' completes inside getExternalIpWithUpnpc
HelperAnswers ==
    /\ ipQuery.pc = "helper"
    /\ \E out \in ExecOutcomes(StatusTexts) :
          LET ip == GetExternalIpWithUpnpc(out)
              q == IpAnswered(ipQuery, "helper", Gave(out))
          IN ipQuery' = IF ip # "" THEN IpReplied(q, ip)
                        ELSE [q EXCEPT !.pc = "api",
                                       !.consulted = Append(@, "api")]
    /\ UNCHANGED <<checkVars, platform, packaged, app, disk, tracer, sysInfo>>

\* the request to api.ipify.org ends with a body, or emits 'error'; in the
\* listener of 'error' os.networkInterfaces() may throw, and then the promise
\* the handler returned is never settled
ApiResponds ==
    /\ ipQuery.pc = "api"
    /\ \/ \E body \in ApiAnswers :
             ipQuery' = IpReplied(IpAnswered(ipQuery, "api", Gave(body)), body)
       \/ \E interfaces \in InterfaceConfigs :
             ipQuery' = IpReplied(
                            IpAnswered(IpAnswered(ipQuery, "api", Threw),
                                       "interfaces", Gave(interfaces)),
                            LocalFallback(interfaces))
       \/ ipQuery' = [IpAnswered(IpAnswered(ipQuery, "api", Threw),
                                 "interfaces", Threw) EXCEPT !.pc = "pending"]
    /\ UNCHANGED <<checkVars, platform, packaged, app, disk, tracer, sysInfo>>

\* the reply of 'get-public-ip' is delivered to the renderer
DeliverPublicIp ==
    /\ ipQuery.pc = "done"
    /\ ipQuery' = IpQueryIdle
    /\ UNCHANGED <<checkVars, platform, packaged, app, disk, tracer, sysInfo>>

\* the renderer invokes 'perform-traceroute' and 'get-public-ip' while the
\* application runs and its windows may be closed
NextHandlers ==
    \/ HandlePerformTraceroute
    \/ TraceEvent
    \/ TraceForgotten
    \/ WindowClosed
    \/ GetPublicIp
    \/ HelperAnswers
    \/ ApiResponds
    \/ DeliverPublicIp

SpecHandlers == Init /\ [][NextHandlers]_vars

(***************************************************************************)
(* getSystemInfo: four collectors run concurrently, each turning its own   *)
(* failure into an error object; the report adds assessCompatibility of    *)
(* what they returned.  Sizes are in GiB.  A requirement's met is the      *)
(* JavaScript value the code stores: "true", "false", "undefined" or "".   *)
(***************************************************************************)
MinMemory == 4
MinDiskSpace == 10

Collectors == {"os", "gpu", "network", "disk"}

\* the object a collector returns when nothing in it threw
CollectorData(which, p) ==
    CASE which = "os" ->
            {[platform |-> p, distro |-> v.distro, release |-> v.release,
              memory |-> [total |-> total]] :
                v \in IF p = "windows"
                      THEN {[distro |-> "Microsoft Windows 7", release |-> "6.1.7601"],
                            [distro |-> "Microsoft Windows 10 Pro", release |-> "10.0.19045"],
                            [distro |-> "Microsoft Windows 12", release |-> "12.0.1"],
                            [distro |-> "Microsoft Windows", release |-> ""]}
                      ELSE IF p = "linux"
                      THEN {[distro |-> "Ubuntu", release |-> "22.04"],
                            [distro |-> "Debian GNU/Linux", release |-> "12"],
                            [distro |-> "Fedora Linux", release |-> "40"],
                            [distro |-> "", release |-> ""]}
                      ELSE {[distro |-> "macOS", release |-> "14.5"]},
                total \in {3, 4, 16}}
      [] which = "gpu" ->
            {[hasNvidia |-> FALSE, primary |-> "null"],
             [hasNvidia |-> FALSE, primary |-> "AMD"],
             [hasNvidia |-> TRUE, primary |-> "NVIDIA"]}
      [] which = "network" -> {[hasInternet |-> b] : b \in BOOLEAN}
      [] which = "disk" -> {[freeSpace |-> free] : free \in {9, 10, 200}}

\* the object the catch of a collector returns
CollectorError(which, p) ==
    CASE which = "os" ->
            [error |-> "Error getting OS information", message |-> "failed",
             platform |-> p]
      [] which = "gpu" ->
            [error |-> "Error getting GPU information", message |-> "failed",
             controllers |-> <<>>]
      [] which = "network" ->
            [error |-> "Error getting network information", message |-> "failed",
             interfaces |-> <<>>]
      [] which = "disk" ->
            [error |-> "Error getting disk information", message |-> "failed",
             disks |-> <<>>]

JsBool(b) == IF b THEN "true" ELSE "false"
\* faulty variant: an unmet requirement leaves compatible as it was
UnlessKept(compatible, met) == compatible
\* if (!met) compatibility.compatible = false
Unless(compatible, met) ==
    IF met \in {"false", "undefined", ""} THEN FALSE ELSE compatible

AssessCompatibility(osInfo, gpuInfo, networkInfo, diskInfo, p) ==
    LET hasNvidia == JsBool(Has(gpuInfo, "hasNvidia") /\ gpuInfo.hasNvidia)
        c1 == Unless(TRUE, hasNvidia)
        memoryMet == IF Has(osInfo, "memory")
                     THEN JsBool(osInfo.memory.total >= MinMemory)
                     ELSE "undefined"
        c2 == Unless(c1, memoryMet)
        hasInternet == Has(networkInfo, "hasInternet") /\ networkInfo.hasInternet
        diskSpaceMet == JsBool(Has(diskInfo, "freeSpace")
                               /\ diskInfo.freeSpace >= MinDiskSpace)
        c3 == Unless(c2, diskSpaceMet)
        \* windows: release.startsWith('10.') || parseInt(major) > 10;
        \* linux: the lower-cased distro includes 'ubuntu' or 'debian'
        osCompatible ==
            IF p = "windows"
            THEN IF ~Has(osInfo, "release") THEN "undefined"
                 ELSE IF osInfo.release = "" THEN ""
                 ELSE JsBool(osInfo.release \in {"10.0.19045", "12.0.1"})
            ELSE IF p = "linux"
            THEN IF ~Has(osInfo, "distro") THEN "undefined"
                 ELSE IF osInfo.distro = "" THEN ""
                 ELSE JsBool(osInfo.distro \in {"Ubuntu", "Debian GNU/Linux"})
            ELSE "false"
        c4 == Unless(c3, osCompatible)
    IN [compatible |-> c4,
        requirements |-> <<[name |-> "NVIDIA GPU", met |-> hasNvidia],
                           [name |-> "System Memory", met |-> memoryMet],
                           [name |-> "Free Disk Space", met |-> diskSpaceMet],
                           [name |-> "Operating System", met |-> osCompatible]>>,
        recommendations |-> <<>>,
        warnings |-> IF hasInternet THEN <<>> ELSE <<"Internet Connectivity">>]

\* faulty variant: one failed collector makes the whole call fail
BuildReportAllOrNothing(s, p) ==
    IF \E which \in Collectors : Has(s[which], "error")
    THEN [error |-> "Error collecting system information", message |-> "failed"]
    ELSE [os |-> s.os, gpu |-> s.gpu, network |-> s.network, disk |-> s.disk,
          compatibility |-> AssessCompatibility(s.os, s.gpu, s.network, s.disk, p)]
\* the report getSystemInfo builds once Promise.all has resolved
BuildReport(s, p) ==
    [os |-> s.os, gpu |-> s.gpu, network |-> s.network, disk |-> s.disk,
     compatibility |-> AssessCompatibility(s.os, s.gpu, s.network, s.disk, p)]

\* getSystemInfo is called: the four collectors are started
GetSystemInfo ==
    /\ sysInfo.pc = "idle"
    /\ sysInfo' = [sysInfo EXCEPT !.pc = "collecting"]
    /\ UNCHANGED <<checkVars, platform, packaged, app, disk, tracer, ipQuery>>

\* a collector settles, with its data or with its error object; the last one
\* to settle resolves Promise.all and the report is built
CollectorSettles ==
    /\ sysInfo.pc = "collecting"
    /\ \E which \in {w \in Collectors : sysInfo[w] = NoResult} :
       \E failed \in BOOLEAN :
       \E data \in CollectorData(which, platform) :
          LET value == IF failed THEN CollectorError(which, platform) ELSE data
              s == [sysInfo EXCEPT ![which] = value,
                                   !.failed = IF failed THEN @ \cup {which} ELSE @]
          IN sysInfo' = IF \A w \in Collectors : s[w] # NoResult
                        THEN [s EXCEPT !.pc = "done",
                                       !.report = BuildReport(s, platform)]
                        ELSE s
    /\ UNCHANGED <<checkVars, platform, packaged, app, disk, tracer, ipQuery>>

\* the caller has the report
SystemInfoReturned ==
    /\ sysInfo.pc = "done"
    /\ sysInfo' = SysInfoIdle
    /\ UNCHANGED <<checkVars, platform, packaged, app, disk, tracer, ipQuery>>

\* the module is used on any platform the application can be started on
InitSysInfo ==
    /\ platform \in AppPlatforms
    /\ packaged \in BOOLEAN
    /\ InitChecks
    /\ app = AppLaunching
    /\ disk = DiskSetUp
    /\ tracer = TracerIdle
    /\ ipQuery = IpQueryIdle
    /\ sysInfo = SysInfoIdle

NextSysInfo ==
    \/ GetSystemInfo
    \/ CollectorSettles
    \/ SystemInfoReturned

SpecSysInfo == InitSysInfo /\ [][NextSysInfo]_vars

(***************************************************************************)
(* Properties.                                                             *)
(***************************************************************************)
Returned(r) == Has(r, "status")

Statuses == {"PASS", "PARTIAL_PASS", "FAIL", "MISSING_DEPENDENCY", "UNKNOWN"}

\* the library probe of the run on channel c is over (returned or threw)
LibraryOver(c) ==
    /\ platform = "linux"
    /\ avail[c] = "true"
    /\ pc[c] \in {"nat_list", "nat_add", "nat_remove", "done"}

MappingOps == {"add", "remove"}

Invoked(c, probe, kinds) ==
    \E i \in DOMAIN ops[c] : ops[c][i].probe = probe /\ ops[c][i].op \in kinds

PassIffAll(r) ==
    (r.status = "PASS") <=> (r.igdDetected /\ r.addMapping /\ r.removeMapping)

\* C1: every result a probe returns (library, Linux native, Windows native; normal
\* end, early return, caught exception) has status PASS exactly when igdDetected,
\* addMapping and removeMapping are all true.
C1_ProbePassIffAllThree ==
    \A c \in Channels :
        /\ Returned(lib[c]) => PassIffAll(lib[c])
        /\ Returned(nat[c]) => PassIffAll(nat[c])

\* a run whose library probe passed and whose native probe returned from its
\* catch block or its local-address exit after detecting the gateway
C1_Witness ==
    \E c \in Channels :
        /\ Returned(lib[c]) /\ lib[c].status = "PASS"
        /\ Returned(nat[c]) /\ nat[c].igdDetected /\ Has(nat[c].details, "error")

\* C2: every comprehensive result with status PASS has igdDetected, addMapping
\* and removeMapping all true.
C2_ComprehensivePassImpliesAll ==
    \A c \in Channels :
        (Returned(ret[c]) /\ ret[c].status = "PASS")
            => /\ Has(ret[c], "igdDetected") /\ ret[c].igdDetected
               /\ Has(ret[c], "addMapping") /\ ret[c].addMapping
               /\ Has(ret[c], "removeMapping") /\ ret[c].removeMapping

AddThenRemove(c, probe) ==
    \A i \in DOMAIN ops[c] :
        (ops[c][i].probe = probe /\ ops[c][i].op = "add")
            => \E j \in DOMAIN ops[c] :
                  /\ j > i
                  /\ ops[c][j].probe = probe
                  /\ ops[c][j].op = "remove"
                  /\ ops[c][j].port = ops[c][i].port

\* C3: when a probe is over, every add-mapping it invoked is followed by a
\* remove-mapping it invoked for the same port.
C3_CleanupAlways ==
    \A c \in Channels :
        /\ LibraryOver(c) => AddThenRemove(c, "library")
        /\ pc[c] = "done" => AddThenRemove(c, "native")

\* C4: when a probe has returned, the router holds no mapping this run created.
C4_NoLeakedMapping ==
    \A c \in Channels :
        /\ LibraryOver(c) => gateway[LibraryTestPort] # c
        /\ pc[c] = "done" => \A p \in Ports : gateway[p] # c

NoMappingAttempt(r, c, probe) ==
    /\ ~r.addMapping
    /\ ~r.removeMapping
    /\ ~Invoked(c, probe, MappingOps)

\* C5: a probe that returns igdDetected = false returns addMapping = false and
\* removeMapping = false and has invoked neither add nor remove.
C5_NoDiscoveryNoMapping ==
    \A c \in Channels :
        /\ (Returned(lib[c]) /\ ~lib[c].igdDetected) => NoMappingAttempt(lib[c], c, "library")
        /\ (Returned(nat[c]) /\ ~nat[c].igdDetected) => NoMappingAttempt(nat[c], c, "native")

\* a native probe that ran its discovery command and returned without a gateway
C5_Witness ==
    \E c \in Channels :
        /\ Returned(nat[c]) /\ ~nat[c].igdDetected
        /\ Invoked(c, "native", {"discover"})

\* C6: on Linux, when commandExists('upnpc') returns false or throws, the
\* comprehensive check returns MISSING_DEPENDENCY with igdDetected = false and no
\* operation of either probe is invoked (no command, no protocol client).
C6_LinuxMissingDependency ==
    \A c \in Channels :
        (platform = "linux" /\ avail[c] \in {"false", "throw"})
            => /\ pc[c] = "done"
               /\ ret[c].status = "MISSING_DEPENDENCY"
               /\ Has(ret[c], "igdDetected") /\ ret[c].igdDetected = FALSE
               /\ ops[c] = <<>>
               /\ client[c] = "none"
               /\ ~Returned(lib[c]) /\ ~Returned(nat[c])

C6_Witness ==
    \E c \in Channels :
        platform = "linux" /\ avail[c] = "throw" /\ pc[c] = "done"

\* C7: on Windows, when the locator reports the helper unavailable, the
\* comprehensive check returns UNKNOWN with igdDetected = false and a
\* recommendation, and the helper is never invoked.
C7_WindowsToolUnavailable ==
    \A c \in Channels :
        (platform = "windows" /\ avail[c] = "false")
            => /\ pc[c] = "done"
               /\ ret[c].status = "UNKNOWN"
               /\ Has(ret[c], "igdDetected") /\ ret[c].igdDetected = FALSE
               /\ Len(ret[c].recommendations) > 0
               /\ ops[c] = <<>>

BothProbesReturned(c) ==
    platform = "linux" /\ Returned(lib[c]) /\ Returned(nat[c])

\* C8: the merged Linux status is PASS if native is PASS; otherwise PASS if library
\* is PASS and native is not FAIL; otherwise the native status.
C8_LinuxMergeStatus ==
    \A c \in Channels :
        BothProbesReturned(c)
            => /\ nat[c].status = "PASS" => ret[c].status = "PASS"
               /\ (nat[c].status # "PASS" /\ lib[c].status = "PASS"
                      /\ nat[c].status # "FAIL") => ret[c].status = "PASS"
               /\ (nat[c].status # "PASS"
                      /\ (lib[c].status # "PASS" \/ nat[c].status = "FAIL"))
                    => ret[c].status = nat[c].status

\* native PASS merged with library FAIL
C8_Witness ==
    \E c \in Channels :
        /\ BothProbesReturned(c)
        /\ nat[c].status = "PASS" /\ lib[c].status = "FAIL" /\ ret[c].status = "PASS"

C10_OrchestratorNeverRaises ==
    \A c \in Channels :
        /\ pc[c] # "raised"
        /\ pc[c] = "done" => (Returned(ret[c]) /\ ret[c].status \in Statuses)
        /\ escapes[c] # "none" => (pc[c] = "done" /\ ret[c].status = "FAIL")

\* close() threw in the library probe's finally and the orchestrator returned
C10_Witness ==
    \E c \in Channels :
        escapes[c] = "library" /\ pc[c] = "done" /\ closeCalls[c] > 0

ClientOps == {"discover", "add", "remove"}

CloseOp == Op("library", "close", 0)

NoUseAfterClose(c) ==
    \A i, j \in DOMAIN ops[c] :
        (i < j /\ ops[c][i] = CloseOp)
            => ~(ops[c][j].probe = "library" /\ ops[c][j].op \in ClientOps)

\* C11: when the library probe is over and its client was created, close() has been
\* called on the client, and no externalIp, createMapping or removeMapping call
\* follows a close() call.
C11_ClientReleased ==
    \A c \in Channels :
        /\ (LibraryOver(c) /\ client[c] # "none")
               => (client[c] = "closed" /\ closeCalls[c] > 0
                   /\ \E i \in DOMAIN ops[c] : ops[c][i] = CloseOp)
        /\ NoUseAfterClose(c)

\* createMapping threw when called, the probe returned through catch and finally
C11_Witness ==
    \E c \in Channels :
        /\ LibraryOver(c)
        /\ Returned(lib[c])
        /\ Has(lib[c].details, "error")
        /\ lib[c].details.error = ClientThrowMessage
        /\ lib[c].igdDetected
        /\ client[c] = "closed"

\* the discovery command of the run on channel c has completed
Listed(c) == Has(drawn[c], "list")

\* C12: whenever the native probe has returned and its discovery command printed
\* one of the two "no gateway" texts, with whatever exit status, the probe's result
\* has igdDetected, addMapping and removeMapping false, status FAIL and the
\* recommendation to check the router, and the probe attempted no add or remove.
C12_NegativeDiscovery ==
    \A c \in Channels :
        (Returned(nat[c]) /\ Listed(c) /\ NoGatewayText(drawn[c].list.stdout))
            => /\ ~nat[c].igdDetected
               /\ nat[c].status = "FAIL"
               /\ NoMappingAttempt(nat[c], c, "native")
               /\ \E i \in DOMAIN nat[c].recommendations :
                      nat[c].recommendations[i] = RecCheckRouter

ExactlyOne(r) == r.addMapping # r.removeMapping

VerdictOf(r) ==
    /\ (r.status = "PARTIAL_PASS") <=> (r.igdDetected /\ ExactlyOne(r))
    /\ (r.igdDetected /\ ~r.addMapping /\ ~r.removeMapping) => r.status = "FAIL"
    /\ r.status = "PARTIAL_PASS" => Len(r.recommendations) >= 1

\* the library probe of the run on channel c got the answer of its removeMapping
LibraryReachedEnd(c) == Returned(lib[c]) /\ Has(drawn[c], "removeMapping")

\* the native probe of the run on channel c saw its remove command complete
NativeReachedEnd(c) == Returned(nat[c]) /\ Has(drawn[c], "remove")

\* C13: a probe that went through discover, add and remove returns PARTIAL_PASS
\* exactly when igdDetected is true and exactly one of addMapping, removeMapping is
\* true, returns FAIL when igdDetected is true and both are false, and a
\* PARTIAL_PASS result has at least one recommendation.
C13_VerdictPartial ==
    \A c \in Channels :
        /\ LibraryReachedEnd(c) => VerdictOf(lib[c])
        /\ NativeReachedEnd(c) => VerdictOf(nat[c])

\* the Windows probe added the mapping, failed to remove it and returned PARTIAL_PASS
C13_Witness ==
    \E c \in Channels :
        /\ platform = "windows"
        /\ NativeReachedEnd(c)
        /\ nat[c].status = "PARTIAL_PASS"
        /\ nat[c].addMapping /\ ~nat[c].removeMapping

LibraryWaits == {"lib_externalIp", "lib_createMapping", "lib_removeMapping"}

NativeWaits == {"nat_list", "nat_add", "nat_remove"}

\* C14: in a Linux check with the tool available every operation of the library
\* probe, its close() included, precedes every operation of the native probe; the
\* native discovery is issued only after the library probe is over with its client
\* no longer open; while a library operation is in flight no native operation has
\* been issued, and while a native operation is in flight the client is not open.
C14_ProbesSequential ==
    \A c \in Channels :
        (platform = "linux" /\ avail[c] = "true")
            => /\ \A i, j \in DOMAIN ops[c] :
                      (ops[c][i].probe = "library" /\ ops[c][j].probe = "native")
                          => i < j
               /\ Invoked(c, "native", {"discover"})
                      => (LibraryOver(c) /\ Returned(lib[c]) /\ client[c] # "open")
               /\ pc[c] \in LibraryWaits
                      => (~Invoked(c, "native", {"discover", "add", "remove"})
                          /\ ~Returned(lib[c]))
               /\ pc[c] \in NativeWaits => client[c] # "open"

\* the library probe went through all its steps and closed its client, and the
\* native discovery command is in flight
C14_Witness ==
    \E c \in Channels :
        /\ platform = "linux"
        /\ pc[c] = "nat_list"
        /\ LibraryReachedEnd(c)
        /\ client[c] = "closed"
        /\ Invoked(c, "native", {"discover"})

Qualifies(exePath, fs) ==
    /\ exePath \in fs.exists
    /\ ~InsideAsar(exePath)
    /\ exePath \in fs.readable

FirstQualifying(exePaths, fs, exePath) ==
    \E i \in DOMAIN exePaths :
        /\ exePaths[i] = exePath
        /\ Qualifies(exePath, fs)
        /\ \A j \in 1..(i - 1) : ~Qualifies(exePaths[j], fs)

NoneQualifies(exePaths, fs) == \A i \in DOMAIN exePaths : ~Qualifies(exePaths[i], fs)

\* the locator call of the orchestrator on channel c returned, over file system fs
Located(c) == Has(drawn[c], "fs") /\ ~drawn[c].fs.threw

\* the locator call of the native probe on channel c returned
LocatedByProbe(c) == Has(drawn[c], "probeFs") /\ ~drawn[c].probeFs.threw

ArchiveInternal(exePath) ==
    \E i \in DOMAIN exePath : exePath[i] = "app.asar" /\ i < Len(exePath)

\* some candidate exists in fs, and every candidate that exists is archive-internal
OnlyArchiveInternal(candidates, fs) ==
    /\ \E i \in DOMAIN candidates : candidates[i] \in fs.exists
    /\ \A i \in DOMAIN candidates :
          candidates[i] \in fs.exists => ArchiveInternal(candidates[i])

\* C17: neither checkWindowsUPnPToolAvailability nor findUpnpcPath of the main
\* process returns a path inside app.asar, and each returns not found when the only
\* candidates that exist are inside app.asar.
C17_NeverArchiveInternal ==
    /\ \A c \in Channels :
          /\ ~ArchiveInternal(locatedPath[c])
          /\ ~ArchiveInternal(toolPath[c])
          /\ (Located(c) /\ OnlyArchiveInternal(ExePaths(packaged), drawn[c].fs.value))
                => (avail[c] = "false" /\ locatedPath[c] = <<>>)
    /\ appPaths # NoResult
          => /\ ~ArchiveInternal(appPaths.upnpc)
             /\ OnlyArchiveInternal(PossiblePaths(packaged), appPaths.fs)
                   => appPaths.upnpc = <<>>

\* the Windows locator met a file system where the helper exists only inside
\* app.asar, and the check returned
C17_Witness ==
    \E c \in Channels :
        /\ pc[c] = "done"
        /\ Located(c)
        /\ OnlyArchiveInternal(ExePaths(packaged), drawn[c].fs.value)
        /\ OnlyArchiveInternal(PossiblePaths(packaged), drawn[c].fs.value)

\* C18: a finished Windows check whose locator found the tool has run no library
\* probe (no client, no library operation, no library result), and its result has
\* method 'native', platform 'windows' and toolPath equal to the path the
\* orchestrator's locator call resolved.
C18_WindowsNativeOnly ==
    \A c \in Channels :
        (platform = "windows" /\ avail[c] = "true")
            => /\ client[c] = "none"
               /\ lib[c] = NoResult
               /\ \A i \in DOMAIN ops[c] : ops[c][i].probe = "native"
               /\ pc[c] = "done"
                     => /\ Returned(nat[c])
                        /\ Has(ret[c], "method") /\ ret[c].method = "native"
                        /\ Has(ret[c], "platform") /\ ret[c].platform = "windows"
                        /\ Has(ret[c], "toolPath") /\ ret[c].toolPath = locatedPath[c]
                        /\ locatedPath[c] # <<>>

\* the Windows native probe went through add and remove and the check returned
C18_Witness ==
    \E c \in Channels :
        /\ platform = "windows"
        /\ avail[c] = "true"
        /\ pc[c] = "done"
        /\ NativeReachedEnd(c)
        /\ ret[c].toolPath = locatedPath[c]

Recommends(r) == Has(r, "recommendations") /\ Len(r.recommendations) >= 1

\* C19: every result returned by a probe or by a comprehensive check whose status
\* is not PASS has a recommendations sequence with at least one entry.
C19_NonPassRecommends ==
    \A c \in Channels :
        /\ (Returned(lib[c]) /\ lib[c].status # "PASS") => Recommends(lib[c])
        /\ (Returned(nat[c]) /\ nat[c].status # "PASS") => Recommends(nat[c])
        /\ (Returned(ret[c]) /\ ret[c].status # "PASS") => Recommends(ret[c])

\* the discovery output names a gateway device it found
ConfirmsGateway(listOutput) == Includes(listOutput, "Found valid IGD")

\* C20: a native probe result has igdDetected true only if the output of the
\* discovery command contains the textual confirmation of a discovered gateway.
C20_IgdOnlyOnConfirmation ==
    \A c \in Channels :
        (Listed(c) /\ Returned(nat[c]) /\ nat[c].igdDetected)
            => ConfirmsGateway(drawn[c].list.stdout)

\* a command of the native probe on channel c was rejected, or the interface scan threw
NativeStepRaised(c) ==
    \/ \E k \in {"list", "add", "remove"} : Has(drawn[c], k) /\ drawn[c][k].exit = "fail"
    \/ Has(drawn[c], "interfaces") /\ drawn[c].interfaces.threw

\* creating the client or calling one of its methods threw in the library probe
LibraryStepRaised(c) ==
    \/ Has(drawn[c], "createClient") /\ drawn[c].createClient = "throw"
    \/ \E k \in {"externalIpCall", "createMappingCall", "removeMappingCall"} :
          Has(drawn[c], k) /\ drawn[c][k] = "throw"

FailedWithError(r) == r.status = "FAIL" /\ Has(r.details, "error")

\* C21: a probe in which a step raised an exception (discovery, local address
\* resolution, add or remove) returns status FAIL with details.error set.
C21_ExceptionMeansFail ==
    \A c \in Channels :
        /\ (Returned(nat[c]) /\ NativeStepRaised(c)) => FailedWithError(nat[c])
        /\ (Returned(lib[c]) /\ LibraryStepRaised(c)) => FailedWithError(lib[c])

\* the operation the run on channel c is awaiting, if it is a mapping operation on
\* port p
MappingInFlight(c, p) ==
    /\ pc[c] \in LibraryWaits \cup NativeWaits \cup {"win_add", "win_remove"}
    /\ ops[c] # <<>>
    /\ ops[c][Len(ops[c])].op \in MappingOps
    /\ ops[c][Len(ops[c])].port = p

\* the run on channel c created a mapping on port p and its remove is in flight
AwaitingOwnRemove(c, p) ==
    /\ MappingInFlight(c, p)
    /\ ops[c][Len(ops[c])].op = "remove"
    /\ work[c].addMapping

\* C22: for each test port at most one add-mapping or remove-mapping operation is
\* in flight at any moment, also when checks are requested on both channels
\* before an earlier one has finished; and while a check that created a mapping
\* awaits its own remove, no other check has deleted that mapping.
C22_MappingOpsNeverOverlap ==
    \A p \in Ports :
        /\ \A c, d \in Channels :
              (MappingInFlight(c, p) /\ MappingInFlight(d, p)) => c = d
        /\ \A c \in Channels : AwaitingOwnRemove(c, p) => gateway[p] # "none"

\* C23: in a Linux merged result built from both probes, igdDetected, addMapping
\* and removeMapping are the native probe's values whatever the library probe
\* reported, and the result has method 'native_with_library_fallback' and platform
\* 'linux'.
C23_NativeFlagsOverlay ==
    \A c \in Channels :
        BothProbesReturned(c)
            => /\ ret[c].igdDetected = nat[c].igdDetected
               /\ ret[c].addMapping = nat[c].addMapping
               /\ ret[c].removeMapping = nat[c].removeMapping
               /\ ret[c].method = "native_with_library_fallback"
               /\ ret[c].platform = "linux"

\* the library probe found a gateway and mapped, the native probe found nothing
C23_Witness ==
    \E c \in Channels :
        /\ BothProbesReturned(c)
        /\ lib[c].igdDetected /\ lib[c].addMapping
        /\ ~nat[c].igdDetected /\ ~ret[c].igdDetected /\ ~ret[c].addMapping

\* the host has no address that is IPv4 and not internal
NoExternalIPv4(interfaces) ==
    \A n \in DOMAIN interfaces :
        \A i \in DOMAIN interfaces[n] :
            interfaces[n][i].internal \/ interfaces[n][i].family # "IPv4"

\* the native probe on channel c found a gateway and then scanned the interfaces
ScannedAfterDiscovery(c) ==
    /\ Listed(c)
    /\ Has(drawn[c], "interfaces")
    /\ ~drawn[c].interfaces.threw

\* C24: when the native probe found a gateway and the host has no non-loopback IPv4
\* address, the probe has returned FAIL with igdDetected true, both mapping flags
\* false and details.error describing the failure, and has invoked neither add nor
\* remove.
C24_NoLocalIpFails ==
    \A c \in Channels :
        (ScannedAfterDiscovery(c) /\ NoExternalIPv4(drawn[c].interfaces.value))
            => /\ Returned(nat[c])
               /\ nat[c].status = "FAIL"
               /\ nat[c].igdDetected
               /\ NoMappingAttempt(nat[c], c, "native")
               /\ Has(nat[c].details, "error")
               /\ nat[c].details.error = ErrNoLocalIp

\* a gateway was found on a host whose only IPv4 address is the loopback one
C24_Witness ==
    \E c \in Channels :
        /\ ScannedAfterDiscovery(c)
        /\ drawn[c].interfaces.value # <<>>
        /\ NoExternalIPv4(drawn[c].interfaces.value)
        /\ Returned(nat[c])
        /\ nat[c].igdDetected

StepsOf(c, probe, kind) ==
    {i \in DOMAIN ops[c] : ops[c][i].probe = probe /\ ops[c][i].op = kind}

\* each step at most once, add after discover, remove after add
StepsInOrder(c, probe) ==
    /\ \A kind \in {"discover", "add", "remove"} :
          Cardinality(StepsOf(c, probe, kind)) <= 1
    /\ \A i \in StepsOf(c, probe, "add") :
          \E j \in StepsOf(c, probe, "discover") : j < i
    /\ \A i \in StepsOf(c, probe, "remove") :
          \E j \in StepsOf(c, probe, "add") : j < i

\* the environment's answer that completes an operation, by call
AnswerKeys(op) ==
    CASE op.probe = "library" /\ op.op = "discover" -> {"externalIp"}
      [] op.probe = "library" /\ op.op = "add" -> {"createMapping"}
      [] op.probe = "library" /\ op.op = "remove" -> {"removeMapping"}
      [] op.probe = "library" /\ op.op = "close" -> {"close", "closeInline"}
      [] op.probe = "native" /\ op.op = "discover" -> {"list"}
      [] op.probe = "native" /\ op.op = "externalIp" -> {"status"}
      [] op.probe = "native" /\ op.op = "add" -> {"add"}
      [] op.probe = "native" /\ op.op = "remove" -> {"remove"}

\* the client method whose call may throw at once, by operation
CallKeys(op) ==
    CASE op.probe = "library" /\ op.op = "discover" -> {"externalIpCall"}
      [] op.probe = "library" /\ op.op = "add" -> {"createMappingCall"}
      [] op.probe = "library" /\ op.op = "remove" -> {"removeMappingCall"}
      [] OTHER -> {}

\* the operation at position i of the run on channel c is over: it was answered,
\* or its call threw
Completed(c, i) ==
    \/ \E k \in AnswerKeys(ops[c][i]) : Has(drawn[c], k)
    \/ \E k \in CallKeys(ops[c][i]) : Has(drawn[c], k) /\ drawn[c][k] = "throw"

\* the result object the native probe of channel c is filling, or returned
NativeResult(c) == IF Returned(nat[c]) THEN nat[c] ELSE work[c]

\* C25: in every probe run discover, add and remove are issued at most once and in
\* this order; every operation but the last issued one has completed, so no two
\* steps overlap; add is issued only after discovery completed with a gateway
\* found, and remove only after add completed.
C25_StepsSequential ==
    \A c \in Channels :
        /\ StepsInOrder(c, "library")
        /\ StepsInOrder(c, "native")
        /\ \A i \in DOMAIN ops[c] : i < Len(ops[c]) => Completed(c, i)
        /\ Invoked(c, "library", {"add"})
              => (Has(drawn[c], "externalIp") /\ drawn[c].externalIp = "ip")
        /\ Invoked(c, "library", {"remove"}) => Has(drawn[c], "createMapping")
        /\ Invoked(c, "native", {"add"})
              => (Listed(c) /\ drawn[c].list.exit = "ok"
                  /\ NativeResult(c).igdDetected)
        /\ Invoked(c, "native", {"remove"}) => Has(drawn[c], "add")

\* the add command failed and the remove command is in flight
C25_Witness ==
    \E c \in Channels :
        /\ pc[c] \in {"nat_remove", "win_remove"}
        /\ Has(drawn[c], "add")
        /\ drawn[c].add.exit = "fail"
        /\ Invoked(c, "native", {"remove"})

\* C26: in every probe run the remove operation names the public port and the
\* protocol of the add operation of the same run, the commands of the native probes
\* naming TCP; on Linux no mapping operation of the library probe names a port a
\* mapping operation of the native probe names.
C26_RemoveTargetsAddedMapping ==
    \A c \in Channels :
        /\ \A probe \in {"library", "native"} :
              \A i \in StepsOf(c, probe, "remove") :
                  \E j \in StepsOf(c, probe, "add") :
                      /\ ops[c][i].port = ops[c][j].port
                      /\ ops[c][i].protocol = ops[c][j].protocol
        /\ \A i \in DOMAIN ops[c] :
              (ops[c][i].probe = "native" /\ ops[c][i].op \in MappingOps)
                  => ops[c][i].protocol = "TCP"
        /\ \A i, j \in DOMAIN ops[c] :
              (/\ ops[c][i].probe = "library" /\ ops[c][i].op \in MappingOps
               /\ ops[c][j].probe = "native" /\ ops[c][j].op \in MappingOps)
                  => ops[c][i].port # ops[c][j].port

\* a Linux run in which both probes issued their remove
C26_Witness ==
    \E c \in Channels :
        /\ platform = "linux"
        /\ Invoked(c, "library", {"remove"})
        /\ Invoked(c, "native", {"remove"})

\* the commands the partition-style check has answers for
PartitionAnswered(k) == Has(partition.drawn, k)
PartitionRan(command) == \E i \in 1..Len(partition.ran) : partition.ran[i] = command
\* rows of an lsblk text that name a device and a table type
TypedRows(text) ==
    SelectSeq(text, LAMBDA line : Len(line) >= 2 /\ line # LsblkHeader)

\* C27: the Linux partition-style check never throws and runs fdisk only
\* after lsblk raised an error; when lsblk succeeds the result carries the
\* raw lsblk text and the list parsed from it; when both commands fail the
\* result is an error object with platform 'linux' and no formatted data.
C27_PartitionFallback ==
    /\ partition.pc \in {"idle", "lsblk", "fdisk", "done"}
    /\ partition.pc = "done" => partition.ret # NoResult
    /\ PartitionRan(FdiskCommand) =>
          /\ PartitionAnswered("lsblk")
          /\ partition.drawn["lsblk"].threw
          /\ partition.ran = <<LsblkCommand, FdiskCommand>>
    /\ (PartitionAnswered("lsblk") /\ ~partition.drawn["lsblk"].threw) =>
          /\ partition.pc = "done"
          /\ Has(partition.ret, "style") /\ Has(partition.ret, "formatted")
          /\ partition.ret.style = partition.drawn["lsblk"].value
          /\ partition.ret.platform = "linux"
          /\ LET rows == TypedRows(partition.drawn["lsblk"].value)
             IN /\ Len(partition.ret.formatted) = Len(rows)
                /\ \A i \in 1..Len(rows) :
                      /\ partition.ret.formatted[i].disk = rows[i][1]
                      /\ partition.ret.formatted[i].type = rows[i][2]
    /\ (PartitionAnswered("fdisk") /\ partition.drawn["fdisk"].threw) =>
          /\ partition.pc = "done"
          /\ Has(partition.ret, "error")
          /\ Has(partition.ret, "platform") /\ partition.ret.platform = "linux"
          /\ ~Has(partition.ret, "formatted")
          /\ ~Has(partition.ret, "style")

\* both commands failed and the error object was returned
C27_Witness ==
    /\ partition.pc = "done"
    /\ PartitionAnswered("lsblk") /\ partition.drawn["lsblk"].threw
    /\ PartitionAnswered("fdisk") /\ partition.drawn["fdisk"].threw
    /\ Has(partition.ret, "error")

\* how often the tool locator was evaluated during the run on channel c
LocatorEvaluations(c) == Cardinality({k \in {"fs", "probeFs"} : Has(drawn[c], k)})
TaggedNative(r) == Returned(r) /\ Has(r, "method") /\ r.method = "native"
ProbeFoundToolMissing(r) ==
    Has(r.details, "error") /\ r.details.error = "upnpc-static.exe not found"
\* the helper the probe invokes is the one the result reports
InvokedAtReportedPath(c) ==
    (toolPath[c] # <<>> /\ Has(ret[c], "toolPath")) => toolPath[c] = ret[c].toolPath

\* C28: during one Windows comprehensive check the tool locator is evaluated
\* once, the native probe invokes the helper at exactly the path reported as
\* toolPath in the returned result, and a result tagged method 'native' is
\* never one in which the probe itself found the tool missing.
C28_LocatorOnce ==
    \A c \in Channels :
        platform = "windows" =>
            /\ LocatorEvaluations(c) <= 1
            /\ TaggedNative(ret[c]) =>
                  /\ InvokedAtReportedPath(c)
                  /\ ~ProbeFoundToolMissing(ret[c])

\* close() calls recorded among the operations of the run on channel c
CloseOps(c) == Cardinality({i \in DOMAIN ops[c] : ops[c][i] = CloseOp})

\* C29: on every exit path of the library probe in which the protocol client
\* was created, close() has been called on it exactly once: never zero times
\* and never twice.
C29_ClosedExactlyOnce ==
    \A c \in Channels :
        (LibraryOver(c) /\ client[c] # "none")
            => (closeCalls[c] = 1 /\ CloseOps(c) = 1)

\* C30: in every result the Windows native probe checkUPnPWindows returns, on
\* every exit path, the enabled field is true exactly when igdDetected is.
C30_EnabledIffDetected ==
    \A c \in Channels :
        (platform = "windows" /\ Returned(nat[c]))
            => (nat[c].enabled <=> nat[c].igdDetected)

MainWindowExists == app.mainWindow = "open"
HandlersCanRun == app.handlers
ChecksLoaded == app.platformChecks \in {"windows-checks", "linux-checks"}

\* C31: whenever the main window exists or an IPC handler can run, the
\* platform's checks module has been loaded; on an unsupported platform no
\* main window is created and no IPC handler registered, whatever application
\* events (window-all-closed, activate) occur.
C31_LoadedBeforeWindow ==
    /\ (MainWindowExists \/ HandlersCanRun) => ChecksLoaded
    /\ platform \notin Platforms => (~MainWindowExists /\ ~HandlersCanRun)

\* position of the first step of the launch's setup that is one of the given
StepAt(steps, names) ==
    IF \E i \in 1..Len(steps) : steps[i] \in names
    THEN CHOOSE i \in 1..Len(steps) :
             steps[i] \in names /\ \A j \in 1..(i - 1) : steps[j] \notin names
    ELSE 0
Attempts(op) == {op, op \o " skipped", op \o " failed"}
SetupTasks == {"mkdir config", "mkdir resources", "copy helper", "write env"}
\* the flag was written in this launch, and every task was attempted before
FlagAfterTasks ==
    StepAt(app.setup, {"write flag"}) > 0 =>
        \A op \in SetupTasks :
            /\ StepAt(app.setup, Attempts(op)) > 0
            /\ StepAt(app.setup, Attempts(op)) < StepAt(app.setup, {"write flag"})
\* a launch that found the flag took no other step
FlagFoundSkips ==
    (app.setup # <<>> /\ app.setup[1] = "flag found") => Len(app.setup) = 1
\* with the flag in place a step of the application leaves the directory as it is
FlagKeepsDisk == disk.flag => disk' = disk

\* C37: first-run setup runs at most once to completion: the flag file is
\* written only after all setup tasks (config directory, resources directory,
\* helper copy, default .env) were attempted, and on a later launch where the
\* flag exists no task is executed and no .env or copied helper is overwritten.
C37_FirstRunOnce ==
    /\ [](FlagAfterTasks /\ FlagFoundSkips)
    /\ [][FlagKeepsDisk]_vars

\* a later launch skipped the setup an earlier launch had completed
C37_Witness ==
    /\ app.phase \notin {"launching", "quit"}
    /\ app.setup = <<"flag found">>
    /\ disk.flag /\ disk.env = "default" /\ disk.userHelper = "copied"

TraceReplied == tracer.reply # NoResult

\* C32: the 'perform-traceroute' handler replies {success: true} only if the
\* trace was actually started (tracer.trace(host) was called and did not
\* throw); when setting up or starting the trace throws, it replies
\* {success: false} with the error text.
C32_SuccessMeansStarted ==
    TraceReplied =>
        /\ tracer.reply.success => tracer.started
        /\ tracer.threw => (~tracer.reply.success /\ Has(tracer.reply, "error"))

\* C33: no traceroute event (pid, destination, hop, close, error) is sent to
\* the renderer while the main window is missing or destroyed, however the
\* tracer's callbacks interleave with the destruction of the window; and a
\* request that finds the window unavailable starts no trace.
C33_NoSendWithoutWindow ==
    /\ \A i \in 1..Len(tracer.sent) : tracer.sent[i].window = "open"
    /\ tracer.asked \notin {"never", "open"} =>
          (~tracer.started /\ ~tracer.threw /\ tracer.sent = <<>>
           /\ ~tracer.reply.success)

\* the window was destroyed during a trace, whose later event was not sent
C33_Witness ==
    /\ tracer.started
    /\ app.mainWindow = "destroyed"
    /\ tracer.emitted > Len(tracer.sent)
    /\ tracer.sent # <<>>

IpDrew(k) == Has(ipQuery.drawn, k)
IpContacted(source) ==
    \E i \in 1..Len(ipQuery.consulted) : ipQuery.consulted[i] = source
\* findUpnpcPath returned no path
NoHelperPath == IpDrew("path") /\ ~ipQuery.drawn.path.threw /\ ipQuery.drawn.path.value = <<>>
\* no address came from the helper: it failed, printed none, or was not there to run
HelperGaveNoIp ==
    \/ ~IpDrew("helper")
    \/ ipQuery.drawn.helper.value.exit # "ok"
    \/ ipQuery.drawn.helper.value.stdout # "ExternalIPAddress = 203.0.113.10"
ApiErrored == IpDrew("api") /\ ipQuery.drawn.api.threw
LocalAddresses == {Eth4.address, Wlan4.address}

\* C34: the 'get-public-ip' handler never rejects and consults its sources in
\* a fixed order: the public IP service only if no helper path was found or
\* the helper yielded no address, the host's own non-internal IPv4 address
\* only if the request to the service errored, and the sentinel 'Unable to
\* detect IP' only if the host has no such address.
C34_SourcesInOrder ==
    /\ ipQuery.pc \in {"idle", "helper", "api", "pending", "done"}
    /\ ipQuery.pc = "done" => Has(ipQuery.reply, "value")
    /\ IpContacted("api") =>
          /\ NoHelperPath \/ HelperGaveNoIp
          /\ IpContacted("helper") => ipQuery.consulted = <<"helper", "api">>
    /\ (ipQuery.pc = "done" /\ ipQuery.reply.value \in LocalAddresses) => ApiErrored
    /\ (ipQuery.pc = "done" /\ ipQuery.reply.value = "Unable to detect IP") =>
          /\ ApiErrored
          /\ IpDrew("interfaces")
          /\ NoExternalIPv4(ipQuery.drawn.interfaces.value)

\* helper and service both failed and the host's own address was returned
C34_Witness ==
    /\ ipQuery.pc = "done"
    /\ ipQuery.consulted = <<"helper", "api">>
    /\ ApiErrored
    /\ ipQuery.reply.value \in LocalAddresses

SysInfoDone == sysInfo.pc = "done"
Compatibility == sysInfo.report.compatibility
AllRequirementsMet(c) ==
    \A i \in 1..Len(c.requirements) : c.requirements[i].met = "true"
\* the assessment of the same findings with any other finding on the network
AssessedWithNetwork(networkInfo) ==
    AssessCompatibility(sysInfo.os, sysInfo.gpu, networkInfo, sysInfo.disk, platform)
NetworkFindings ==
    CollectorData("network", platform) \cup {CollectorError("network", platform)}

\* C35: the compatible flag assessCompatibility returns is true exactly when
\* every entry of the returned requirements has met equal to true; a missing
\* internet connection only adds a warning and never changes compatible.
C35_CompatibleIffAllMet ==
    (SysInfoDone /\ Has(sysInfo.report, "compatibility")) =>
        /\ Compatibility.compatible <=> AllRequirementsMet(Compatibility)
        /\ Len(Compatibility.requirements) = 4
        /\ \A i \in 1..4 : Compatibility.requirements[i].name # "Internet Connectivity"
        /\ (sysInfo.network = [hasInternet |-> TRUE]) <=> (Compatibility.warnings = <<>>)
        /\ \A n \in NetworkFindings :
              AssessedWithNetwork(n).compatible = Compatibility.compatible

\* every requirement is met and the host has no internet connection
C35_Witness ==
    /\ SysInfoDone
    /\ Has(sysInfo.report, "compatibility")
    /\ Compatibility.compatible
    /\ sysInfo.network = [hasInternet |-> FALSE]
    /\ Compatibility.warnings # <<>>

\* C36: getSystemInfo always resolves with a report that has the os, gpu,
\* network, disk and compatibility sections, whichever of the four collectors
\* failed internally; a failed collector contributes its error object, and
\* the compatibility assessment is still produced.
C36_ReportAlwaysComplete ==
    /\ sysInfo.pc \in {"idle", "collecting", "done"}
    /\ SysInfoDone =>
          /\ \A k \in Collectors \cup {"compatibility"} : Has(sysInfo.report, k)
          /\ \A which \in Collectors :
                (which \in sysInfo.failed) <=>
                    (Has(sysInfo.report[which], "error")
                     /\ Has(sysInfo.report[which], "message"))
          /\ Has(sysInfo.report.compatibility, "compatible")
          /\ Len(sysInfo.report.compatibility.requirements) = 4
    /\ (\A which \in Collectors : sysInfo[which] # NoResult) => SysInfoDone

\* all four collectors failed and the report still carries an assessment
C36_Witness ==
    /\ SysInfoDone
    /\ sysInfo.failed = Collectors
    /\ Has(sysInfo.report, "compatibility")
    /\ ~sysInfo.report.compatibility.compatible

====
